---------------------------- MODULE Spec2Model ----------------------------
(***************************************************************************)
(* balancebeam (proj-2): a reverse proxy.  One handler task per accepted   *)
(* client connection reads HTTP requests from its client socket, obtains a *)
(* connection to a live upstream (connect_to_upstream), forwards the       *)
(* request, reads the upstream's response and relays it.  All handlers     *)
(* share ProxyState: the upstream list and the RwLock'd dead-set.          *)
(*                                                                         *)
(* Sockets are byte streams.  A byte is modelled by a unit: a record with  *)
(* the fields t, m, st, cl, clbad.                                         *)
(*   t = "S"  a byte of a start line / header block that is valid so far   *)
(*   t = "E"  the byte that completes a header block; it carries what the  *)
(*            parsed block holds: the method m (requests), the status st   *)
(*            (responses), the Content-Length header cl (<<>> absent,      *)
(*            <<n>> present with value n) and clbad (present, not numeric) *)
(*   t = "B"  a payload byte                                               *)
(*   t = "X"  a byte that makes a header block malformed                   *)
(* A read() may return any non-zero number of the bytes the peer has sent, *)
(* up to the size of the buffer it is given.                               *)
(***************************************************************************)
EXTENDS Integers, Naturals, Sequences, FiniteSets, TLC

\* ------------------------------------------------------------- bounds
\* number of client connections the listener accepts
NumHandlers == 2
\* largest number of configured upstreams
MaxUpstreams == 3
\* request.rs:5 / response.rs:4 MAX_HEADERS_SIZE (8000), scaled down to units
MAX_HEADERS_SIZE == 4

\* ------------------------------------------------- program constants
MAX_BODY_SIZE == 10000000
READ_BUF_SIZE == 512
\* the Content-Length and the number of body bytes of the truncated POST
ShortDeclared == 10
ShortSent == 5

Handlers == 1..NumHandlers

\* ------------------------------------------------------------- bytes
Unit(t, m, st, cl, clbad) == [t |-> t, m |-> m, st |-> st, cl |-> cl, clbad |-> clbad]
S == Unit("S", "", 0, <<>>, FALSE)
B == Unit("B", "", 0, <<>>, FALSE)
X == Unit("X", "", 0, <<>>, FALSE)
\* the end of a request header block: method, Content-Length
ReqE(m, cl) == Unit("E", m, 0, cl, FALSE)
ReqEBadCL(m) == Unit("E", m, 0, <<>>, TRUE)
\* the end of a response header block: status, Content-Length
RspE(st, cl) == Unit("E", "", st, cl, FALSE)
RspEBadCL(st) == Unit("E", "", st, <<>>, TRUE)

Min(a, b) == IF a < b THEN a ELSE b

Take(s, k) == SubSeq(s, 1, k)
Drop(s, k) == SubSeq(s, k + 1, Len(s))

RECURSIVE Rep(_, _)
Rep(u, k) == IF k = 0 THEN <<>> ELSE <<u>> \o Rep(u, k - 1)

\* A peer's side of a socket: the bytes it still sends, and what a read finds
\* once they are consumed: "eof" (closed), "reset" (an I/O error), "idle" (the
\* peer keeps the socket open and sends nothing: the read does not return).
Stream(bytes, end) == [bytes |-> bytes, end |-> end]

\* stream.read(buf) with a buffer of cap bytes: the possible results
\* [err, n]; n = 0 with err = FALSE is Ok(0).
ReadResults(stream, cap) ==
  IF cap = 0 THEN {[err |-> FALSE, n |-> 0]}
  ELSE IF Len(stream.bytes) > 0
       THEN {[err |-> FALSE, n |-> k] : k \in 1..Min(cap, Len(stream.bytes))}
  ELSE IF stream.end = "eof" THEN {[err |-> FALSE, n |-> 0]}
  ELSE IF stream.end = "reset" THEN {[err |-> TRUE, n |-> 0]}
  ELSE {}

\* ----------------------------------------------------------- parsing
\* httparse on a buffer: the index of the first byte that is not "S", 0 if none
RECURSIVE FirstNonS(_, _)
FirstNonS(buf, i) ==
  IF i > Len(buf) THEN 0
  ELSE IF buf[i].t # "S" THEN i
  ELSE FirstNonS(buf, i + 1)

\* parse_request / parse_response: "partial" is Ok(None), "malformed" is
\* Err(Malformed..), "complete" is Ok(Some((message, headers_len)))
Parse(buf) ==
  LET i == FirstNonS(buf, 1) IN
  IF i = 0 THEN [res |-> "partial", len |-> 0]
  ELSE IF buf[i].t = "E" /\ i > 1 THEN [res |-> "complete", len |-> i]
  ELSE [res |-> "malformed", len |-> 0]

\* get_content_length: "none" is Ok(None), "some" is Ok(Some(n)), "invalid" is
\* Err(InvalidContentLength)
GetContentLength(msg) ==
  IF msg.clbad THEN [res |-> "invalid", n |-> 0]
  ELSE IF msg.cl = <<>> THEN [res |-> "none", n |-> 0]
  ELSE [res |-> "some", n |-> msg.cl[1]]

\* the message parse_request / parse_response builds from a complete block,
\* with the body read_headers gives it: the bytes read past the header block
Message(buf, len) ==
  [m |-> buf[len].m, st |-> buf[len].st, cl |-> buf[len].cl,
   clbad |-> buf[len].clbad, body |-> Drop(buf, len)]

NoMessage == [m |-> "", st |-> 0, cl |-> <<>>, clbad |-> FALSE, body |-> <<>>]

\* ------------------------------------------------------------- state
VARIABLES
  upstream_addresses,  \* ProxyState.upstream_addresses: index -> the server there
  dead_upstreams,      \* ProxyState.dead_upstreams: the set inside the RwLock
  readers,             \* the tasks holding a read guard of the RwLock
  writer,              \* the tasks holding its write guard
  task,                \* per connection: the handle_connection task's locals
  codec,               \* a request being decoded, extended and re-encoded
  ll,                  \* week3 linked_list: the heap and the lists of a program
  pm,                  \* week6 parallel_map: one call, its threads and channels
  dbg                  \* proj-1 deet: the debugger and its inferior processes

\* the state outside the proxy's handlers
aux == <<codec, ll, pm, dbg>>
vars == <<upstream_addresses, dead_upstreams, readers, writer, task, aux>>

Indices == DOMAIN upstream_addresses
total_upstreams == Cardinality(Indices)

\* ------------------------------------------- request::read_from_stream
Ok(req) == [ok |-> TRUE, kind |-> "", n |-> 0, req |-> req]
Err(kind, n) == [ok |-> FALSE, kind |-> kind, n |-> n, req |-> NoMessage]

\* a mutant of StatusFor: a Content-Length mismatch answered as too large
StatusForMismatch413(kind) ==
  IF kind \in {"IncompleteRequest", "MalformedRequest", "InvalidContentLength"}
  THEN 400
  ELSE IF kind \in {"RequestBodyTooLarge", "ContentLengthMismatch"} THEN 413
  ELSE 503

\* main.rs:249-256: the status of the error response for a decode error
StatusFor(kind) ==
  IF kind \in {"IncompleteRequest", "MalformedRequest", "InvalidContentLength",
               "ContentLengthMismatch"}
  THEN 400
  ELSE IF kind = "RequestBodyTooLarge" THEN 413
  ELSE 503

\* response::make_http_error, and the response record the handler writes.
\* from: <<>> for a response the proxy made, <<i>> for one relayed from index i
Response(status, cause, from, body) ==
  [status |-> status, cause |-> cause, from |-> from, body |-> body]
make_http_error(status, cause) == Response(status, cause, <<>>, <<B>>)

\* The locals of one turn of handle_connection's loop (main.rs:233-352) as they
\* are when the turn begins
NextRequest(l) ==
  [l EXCEPT !.pc = "read_headers", !.buf = <<>>, !.request = NoMessage,
            !.retry_count = 0, !.tried_upstreams = {}, !.upstream_idx = <<>>,
            !.upstream_conn = <<>>, !.response = NoMessage, !.pending = <<>>,
            !.attempted = {}, !.repeated = FALSE]

\* handle_connection returns: the task ends and its locals are dropped
Return(l) == [NextRequest(l) EXCEPT !.pc = "closed"]

\* send_response is about to be awaited with response rsp; next is where the
\* handler goes after it
Sending(l, rsp, next) ==
  [l EXCEPT !.pc = "send", !.pending = <<[rsp |-> rsp, next |-> next]>>]

\* a mutant of LoopHead: the loop goes on whatever the count is
LoopHeadUnbounded(l, total) ==
  [l EXCEPT !.retry_count = l.retry_count + 1,
            !.tried_upstreams = {},
            !.upstream_idx = <<>>,
            !.pc = "cu_read_lock"]

\* a mutant of LoopHead: the loop gives up one attempt before the budget
LoopHeadGivesUpEarly(l, total) ==
  IF l.retry_count + 1 < total
  THEN [l EXCEPT !.retry_count = l.retry_count + 1,
                 !.tried_upstreams = {},
                 !.upstream_idx = <<>>,
                 !.pc = "cu_read_lock"]
  ELSE Sending(l, make_http_error(502, "retries"), "closed")

\* main.rs:275-280, with success = false: the head of the retry loop.  Below the
\* budget it counts the attempt and enters connect_to_upstream (main.rs:131-139:
\* a fresh tried-set; the list is not empty, so the while loop is entered and
\* the read lock is awaited).  At the budget the loop ends and main.rs:346-351
\* sends the 502 and returns.
LoopHead(l, total) ==
  IF l.retry_count < total
  THEN [l EXCEPT !.retry_count = l.retry_count + 1,
                 !.tried_upstreams = {},
                 !.upstream_idx = <<>>,
                 !.pc = "cu_read_lock"]
  ELSE Sending(l, make_http_error(502, "retries"), "closed")

\* a mutant of ConnectFailed: after the 502 the handler awaits another request
ConnectFailedKeepsOpen(l, total) ==
  IF l.retry_count >= total
  THEN Sending(l, make_http_error(502, "connect"), "read_headers")
  ELSE LoopHead(l, total)

\* main.rs:282-290: connect_to_upstream returned Err
ConnectFailed(l, total) ==
  IF l.retry_count >= total
  THEN Sending(l, make_http_error(502, "connect"), "closed")
  ELSE LoopHead(l, total)

\* a mutant of OnRequestResult: the I/O error falls through to the error arm
OnRequestResultSends503(l, res, total) ==
  IF res.ok
  THEN LoopHead([l EXCEPT !.request = res.req, !.retry_count = 0], total)
  ELSE IF res.kind = "IncompleteRequest" /\ res.n = 0
  THEN Return(l)
  ELSE Sending(l, make_http_error(StatusFor(res.kind), res.kind), "read_headers")

\* a mutant of OnRequestResult: a hang-up before any byte is answered like a
\* hang-up in mid-request
OnRequestResultAnswersEof(l, res, total) ==
  IF res.ok
  THEN LoopHead([l EXCEPT !.request = res.req, !.retry_count = 0], total)
  ELSE IF res.kind = "ConnectionError"
  THEN Return(l)
  ELSE Sending(l, make_http_error(StatusFor(res.kind), res.kind), "read_headers")

\* main.rs:235-273: the match on request::read_from_stream's result.  Ok: the
\* request is kept, the retry counters are set and the retry loop is entered.
OnRequestResult(l, res, total) ==
  IF res.ok
  THEN LoopHead([l EXCEPT !.request = res.req, !.retry_count = 0], total)
  ELSE IF res.kind = "IncompleteRequest" /\ res.n = 0
  THEN Return(l)
  ELSE IF res.kind = "ConnectionError"
  THEN Return(l)
  ELSE Sending(l, make_http_error(StatusFor(res.kind), res.kind), "read_headers")

\* request.rs:176-183: read_from_stream once read_headers returned req
AfterRequestHeaders(l, req, total) ==
  LET cl == GetContentLength(req) IN
  IF cl.res = "invalid"
  THEN OnRequestResult(l, Err("InvalidContentLength", 0), total)
  ELSE IF cl.res = "none"
  THEN OnRequestResult(l, Ok(req), total)
  ELSE IF cl.n > MAX_BODY_SIZE
  THEN OnRequestResult(l, Err("RequestBodyTooLarge", 0), total)
  ELSE IF Len(req.body) < cl.n
  THEN [l EXCEPT !.request = req, !.pc = "read_body"]
  ELSE OnRequestResult(l, Ok(req), total)

\* request.rs:105-126: one turn of read_headers' loop, the read returning r
RequestHeadersRead(l, r, total) ==
  IF r.err THEN OnRequestResult(l, Err("ConnectionError", 0), total)
  ELSE IF r.n = 0
  THEN OnRequestResult(l, Err("IncompleteRequest", Len(l.buf)), total)
  ELSE LET nbuf == l.buf \o Take(l.client.bytes, r.n)
           l2 == [l EXCEPT !.client.bytes = Drop(l.client.bytes, r.n),
                           !.buf = <<>>]
           p == Parse(nbuf)
       IN IF p.res = "malformed"
          THEN OnRequestResult(l2, Err("MalformedRequest", 0), total)
          ELSE IF p.res = "partial"
          THEN [l2 EXCEPT !.buf = nbuf]
          ELSE AfterRequestHeaders(l2, Message(nbuf, p.len), total)

\* a mutant of RequestBodyRead: the end of the stream ends the body
RequestBodyReadAcceptsShort(l, r, total) ==
  LET content_length == l.request.cl[1] IN
  IF r.err THEN OnRequestResult(l, Err("ConnectionError", 0), total)
  ELSE IF r.n = 0
  THEN OnRequestResult(l, Ok(l.request), total)
  ELSE LET l2 == [l EXCEPT !.client.bytes = Drop(l.client.bytes, r.n)] IN
       IF Len(l.request.body) + r.n > content_length
       THEN OnRequestResult(l2, Err("ContentLengthMismatch", 0), total)
       ELSE LET req == [l.request EXCEPT
                          !.body = l.request.body \o Take(l.client.bytes, r.n)]
            IN IF Len(req.body) < content_length
               THEN [l2 EXCEPT !.request = req]
               ELSE OnRequestResult(l2, Ok(req), total)

\* request.rs:139-166: one turn of read_body's loop, the read returning r
RequestBodyRead(l, r, total) ==
  LET content_length == l.request.cl[1] IN
  IF r.err THEN OnRequestResult(l, Err("ConnectionError", 0), total)
  ELSE IF r.n = 0
  THEN OnRequestResult(l, Err("ContentLengthMismatch", 0), total)
  ELSE LET l2 == [l EXCEPT !.client.bytes = Drop(l.client.bytes, r.n)] IN
       IF Len(l.request.body) + r.n > content_length
       THEN OnRequestResult(l2, Err("ContentLengthMismatch", 0), total)
       ELSE LET req == [l.request EXCEPT
                          !.body = l.request.body \o Take(l.client.bytes, r.n)]
            IN IF Len(req.body) < content_length
               THEN [l2 EXCEPT !.request = req]
               ELSE OnRequestResult(l2, Ok(req), total)

\* ------------------------------------------ response::read_from_stream
OkRsp(rsp) == [ok |-> TRUE, kind |-> "", rsp |-> rsp]
ErrRsp(kind) == [ok |-> FALSE, kind |-> kind, rsp |-> NoMessage]

\* a mutant of OnResponseResult: after an error the connection is kept
OnResponseResultKeepsConn(l, res) ==
  IF res.ok
  THEN Sending([l EXCEPT !.response = res.rsp],
               Response(res.rsp.st, "relay", l.upstream_idx, res.rsp.body),
               "read_headers")
  ELSE [l EXCEPT !.response = NoMessage, !.buf = <<>>, !.pc = "fw_write_lock"]

\* a mutant of OnResponseResult: a response with a 5xx status counts as a
\* failure of the upstream
OnResponseResultFails5xx(l, res) ==
  IF res.ok /\ res.rsp.st < 500
  THEN Sending([l EXCEPT !.response = res.rsp],
               Response(res.rsp.st, "relay", l.upstream_idx, res.rsp.body),
               "read_headers")
  ELSE [l EXCEPT !.upstream_conn = <<>>, !.response = NoMessage, !.buf = <<>>,
                 !.pc = "fw_write_lock"]

\* main.rs:313-342: the match on the timed response::read_from_stream.  Ok: the
\* response is relayed to the client (the upstream connection is dropped after
\* the send, success is set and the handler loops to the next request).  An
\* error or the timeout: the connection is dropped and the write lock awaited
\* to mark the upstream dead.
OnResponseResult(l, res) ==
  IF res.ok
  THEN Sending([l EXCEPT !.response = res.rsp],
               Response(res.rsp.st, "relay", l.upstream_idx, res.rsp.body),
               "read_headers")
  ELSE [l EXCEPT !.upstream_conn = <<>>, !.response = NoMessage, !.buf = <<>>,
                 !.pc = "fw_write_lock"]

\* response.rs:162-165: the responses read_from_stream reads no body for
NoBodyExpected(method, status) ==
  method = "HEAD" \/ status < 200 \/ status = 204 \/ status = 304

\* response.rs:159-169 with read_body's entry (response.rs:116-118)
AfterResponseHeaders(l, rsp) ==
  IF NoBodyExpected(l.request.m, rsp.st)
  THEN OnResponseResult(l, OkRsp(rsp))
  ELSE LET cl == GetContentLength(rsp) IN
       IF cl.res = "invalid"
       THEN OnResponseResult(l, ErrRsp("InvalidContentLength"))
       ELSE IF cl.res = "none" \/ Len(rsp.body) < cl.n
       THEN [l EXCEPT !.response = rsp, !.pc = "fw_read_body"]
       ELSE OnResponseResult(l, OkRsp(rsp))

\* response.rs:85-106: one turn of read_headers' loop, the read returning r
ResponseHeadersRead(l, r) ==
  LET up == l.upstream_conn[1] IN
  IF r.err THEN OnResponseResult(l, ErrRsp("ConnectionError"))
  ELSE IF r.n = 0 THEN OnResponseResult(l, ErrRsp("IncompleteResponse"))
  ELSE LET nbuf == l.buf \o Take(up.bytes, r.n)
           l2 == [l EXCEPT !.upstream_conn[1].bytes = Drop(up.bytes, r.n),
                           !.buf = <<>>]
           p == Parse(nbuf)
       IN IF p.res = "malformed"
          THEN OnResponseResult(l2, ErrRsp("MalformedResponse"))
          ELSE IF p.res = "partial"
          THEN [l2 EXCEPT !.buf = nbuf]
          ELSE AfterResponseHeaders(l2, Message(nbuf, p.len))

\* response.rs:118-148: one turn of read_body's loop, the read returning r
ResponseBodyRead(l, r) ==
  LET up == l.upstream_conn[1]
      cl == GetContentLength(l.response)
  IN
  IF r.err THEN OnResponseResult(l, ErrRsp("ConnectionError"))
  ELSE IF r.n = 0
  THEN IF cl.res = "none"
       THEN OnResponseResult(l, OkRsp(l.response))
       ELSE OnResponseResult(l, ErrRsp("ContentLengthMismatch"))
  ELSE LET l2 == [l EXCEPT !.upstream_conn[1].bytes = Drop(up.bytes, r.n)] IN
       IF cl.res = "some" /\ Len(l.response.body) + r.n > cl.n
       THEN OnResponseResult(l2, ErrRsp("ContentLengthMismatch"))
       ELSE IF Len(l.response.body) + r.n > MAX_BODY_SIZE
       THEN OnResponseResult(l2, ErrRsp("ResponseBodyTooLarge"))
       ELSE LET rsp == [l.response EXCEPT
                          !.body = l.response.body \o Take(up.bytes, r.n)]
            IN IF cl.res = "none" \/ Len(rsp.body) < cl.n
               THEN [l2 EXCEPT !.response = rsp]
               ELSE OnResponseResult(l2, OkRsp(rsp))

\* --------------------------------------------------- the environment
\* What an upstream connection does once accepted: the response bytes it sends
\* and whether writing the request to it fails.  sent is history: all the
\* bytes the upstream sends on the connection, read or not.
Conn(bytes, end, wfail) ==
  [bytes |-> bytes, end |-> end, wfail |-> wfail, sent |-> bytes]

\* the responses of a healthy upstream to a request with this method
GoodConns(method) ==
  IF method = "HEAD"
  THEN {Conn(<<S, RspE(200, <<1>>)>>, "idle", FALSE)}
  ELSE {Conn(<<S, RspE(200, <<1>>), B>>, "idle", FALSE)}

\* the failures of an unreliable upstream after it accepted
FailingConns ==
  {Conn(<<>>, "idle", TRUE), Conn(<<>>, "idle", FALSE), Conn(<<>>, "eof", FALSE)}

\* well-formed and ill-formed responses that exercise the response decoder
OddConns ==
  {Conn(<<S, RspE(200, <<>>), B>>, "eof", FALSE),
   Conn(<<S, RspE(500, <<0>>)>>, "idle", FALSE),
   Conn(<<S, RspE(204, <<>>), B>>, "idle", FALSE),
   Conn(<<S, RspE(100, <<>>), S, RspE(200, <<0>>)>>, "idle", FALSE),
   Conn(<<S, RspE(200, <<2>>), B>>, "eof", FALSE),
   Conn(<<S, RspE(200, <<1>>), B, B>>, "idle", FALSE),
   Conn(<<S, RspEBadCL(200)>>, "idle", FALSE),
   Conn(<<S, RspE(200, <<2>>), B>>, "idle", FALSE),
   Conn(<<S, X>>, "idle", FALSE),
   Conn(<<S>>, "reset", FALSE)}

\* TcpStream::connect within the 2 s timeout, by the server at the address:
\* "up" accepts and answers well, "down" refuses or does not answer the connect,
\* "flaky" may do either and may fail after accepting, "odd" accepts and then
\* does any of the above.
ConnectOutcomes(mode, method) ==
  LET ok == IF mode = "up" THEN GoodConns(method)
            ELSE IF mode = "flaky" THEN GoodConns(method) \cup FailingConns
            ELSE IF mode = "odd"
            THEN GoodConns("GET") \cup GoodConns("HEAD") \cup FailingConns
                 \cup OddConns
            ELSE {}
      failed == IF mode \in {"down", "flaky"} THEN {"error", "timeout"} ELSE {}
  IN {[res |-> "ok", conn |-> <<c>>] : c \in ok}
     \cup {[res |-> f, conn |-> <<>>] : f \in failed}

\* ------------------------------------------------------ client inputs
GetReq == <<S, ReqE("GET", <<>>)>>
HeadReq == <<S, ReqE("HEAD", <<>>)>>
PostReq == <<S, ReqE("POST", <<2>>), B, B>>
\* POST / with Content-Length: 10 and the 5 bytes "hello"
ShortPost == <<S, ReqE("POST", <<ShortDeclared>>)>> \o Rep(B, ShortSent)

\* the clients of the connections that run together
PlainClient(h) ==
  IF h % 2 = 1 THEN Stream(GetReq, "eof")
  ELSE Stream(<<S, ReqE("POST", <<1>>), B>>, "eof")

\* the clients that exercise the request decoder
DecoderClients ==
  {Stream(<<>>, "eof"),
   Stream(<<>>, "reset"),
   Stream(GetReq, "eof"),
   Stream(HeadReq, "eof"),
   Stream(PostReq, "eof"),
   Stream(ShortPost, "eof"),
   Stream(<<S>>, "eof"),
   Stream(<<S>>, "reset"),
   Stream(<<X>> \o GetReq, "eof"),
   Stream(<<S, ReqEBadCL("POST")>>, "eof"),
   Stream(<<S, ReqE("POST", <<MAX_BODY_SIZE + 1>>)>> \o GetReq, "eof"),
   Stream(Rep(S, MAX_HEADERS_SIZE + 1), "eof"),
   Stream(<<S, ReqE("POST", <<1>>), B>> \o GetReq, "reset"),
   Stream(GetReq \o GetReq, "idle")}

NoClient == Stream(<<>>, "none")

InitTask(client) ==
  [pc |-> IF client = NoClient THEN "none" ELSE "pending",
   client |-> client, script |-> client,
   buf |-> <<>>, request |-> NoMessage,
   retry_count |-> 0, tried_upstreams |-> {}, upstream_idx |-> <<>>,
   upstream_conn |-> <<>>, response |-> NoMessage, pending |-> <<>>,
   out |-> <<>>, fwd |-> <<>>,
   \* history: the dead-set as read for the pending connect, whether the
   \* task ever began a connect, the indices a connect was attempted to for
   \* the request at hand, and whether one of them was attempted again
   dead_seen |-> {}, contacted |-> FALSE, attempted |-> {}, repeated |-> FALSE]

\* The upstream lists of the model: the server at index 0 is of any kind, the
\* others are healthy or unreachable
UpstreamLists(first) ==
  UNION {{f \in [0..(n - 1) -> {"up", "down"} \cup first] :
            \A i \in 1..(n - 1) : f[i] \in {"up", "down"}} : n \in 1..MaxUpstreams}

\* main.rs:99-105: the state main builds from the command line
InitProxyState ==
  /\ dead_upstreams = {}
  /\ readers = {}
  /\ writer = {}

\* no request is in the codec
NoCodec == [pc |-> "none"]
\* no linked-list program runs
NoLists == [pc |-> "none"]
\* no call of parallel_map is under way
NoMap == [pc |-> "none"]
\* no debugger runs
NoDebugger == [pc |-> "none"]

\* one client connection, of any kind
Init ==
  /\ InitProxyState
  /\ codec = NoCodec
  /\ ll = NoLists
  /\ pm = NoMap
  /\ dbg = NoDebugger
  /\ upstream_addresses \in UpstreamLists({"odd"})
  /\ \E c \in DecoderClients :
       task = [h \in Handlers |-> InitTask(IF h = 1 THEN c ELSE NoClient)]

\* NumHandlers client connections whose handlers run together
InitConc ==
  /\ InitProxyState
  /\ codec = NoCodec
  /\ ll = NoLists
  /\ pm = NoMap
  /\ dbg = NoDebugger
  /\ upstream_addresses \in UpstreamLists({"flaky"})
  /\ task = [h \in Handlers |-> InitTask(PlainClient(h))]

\* ----------------------------------------------------------- actions
\* main.rs:108-114: the listener accepts a connection and spawns its handler;
\* main.rs:228-235: the handler awaits the first read of the client socket
Accept(h) ==
  /\ task[h].pc = "pending"
  /\ task' = [task EXCEPT ![h].pc = "read_headers"]
  /\ UNCHANGED <<aux, upstream_addresses, dead_upstreams, readers, writer>>

\* request.rs:107-109: a read of the client socket in read_headers returns
ReqReadHeaders(h) ==
  /\ task[h].pc = "read_headers"
  /\ \E r \in ReadResults(task[h].client, MAX_HEADERS_SIZE - Len(task[h].buf)) :
       task' = [task EXCEPT ![h] = RequestHeadersRead(task[h], r, total_upstreams)]
  /\ UNCHANGED <<aux, upstream_addresses, dead_upstreams, readers, writer>>

\* request.rs:141-142: a read of the client socket in read_body returns
ReqReadBody(h) ==
  /\ task[h].pc = "read_body"
  /\ \E r \in ReadResults(task[h].client,
                          Min(READ_BUF_SIZE, task[h].request.cl[1])) :
       task' = [task EXCEPT ![h] = RequestBodyRead(task[h], r, total_upstreams)]
  /\ UNCHANGED <<aux, upstream_addresses, dead_upstreams, readers, writer>>

\* main.rs:141: dead_upstreams.read().await is granted
CuReadLock(h) ==
  /\ task[h].pc = "cu_read_lock"
  /\ writer = {}
  /\ readers' = readers \cup {h}
  /\ task' = [task EXCEPT ![h].pc = "cu_select"]
  /\ UNCHANGED <<aux, upstream_addresses, dead_upstreams, writer>>

\* a mutant of Available: the dead-set is not consulted
AvailableIgnoringDead(dead, tried, indices) ==
  {idx \in indices : idx \notin tried}

\* a mutant of Available: the index 0 is never offered
AvailableSkippingFirst(dead, tried, indices) ==
  {idx \in indices : idx \notin dead /\ idx \notin tried /\ idx # 0}

\* main.rs:144-146: the indices neither dead nor tried
Available(dead, tried, indices) ==
  {idx \in indices : idx \notin dead /\ idx \notin tried}

\* a mutant of CuSelect: the read guard is kept while the connect is awaited
CuSelectKeepsGuard(h) ==
  LET l == task[h]
      available_upstreams == Available(dead_upstreams, l.tried_upstreams, Indices)
  IN
  /\ task[h].pc = "cu_select"
  /\ IF available_upstreams = {}
     THEN /\ task' = [task EXCEPT ![h] = ConnectFailed(task[h], total_upstreams)]
          /\ readers' = readers \ {h}
     ELSE /\ \E upstream_idx \in available_upstreams :
               task' = [task EXCEPT ![h] =
                 [l EXCEPT !.tried_upstreams = l.tried_upstreams \cup {upstream_idx},
                           !.dead_seen = dead_upstreams,
                           !.upstream_idx = <<upstream_idx>>,
                           !.contacted = TRUE,
                           !.attempted = l.attempted \cup {upstream_idx},
                           !.repeated = l.repeated \/ upstream_idx \in l.attempted,
                           !.pc = "cu_connect"]]
          /\ readers' = readers
  /\ UNCHANGED <<aux, upstream_addresses, dead_upstreams, writer>>

\* main.rs:144-164: under the read guard the available indices are computed and
\* the guard dropped; none: connect_to_upstream returns Err (main.rs:151-157);
\* else one is chosen at random and recorded as tried, and the connect awaited
CuSelect(h) ==
  LET l == task[h]
      available_upstreams == Available(dead_upstreams, l.tried_upstreams, Indices)
  IN
  /\ task[h].pc = "cu_select"
  /\ readers' = readers \ {h}
  /\ IF available_upstreams = {}
     THEN task' = [task EXCEPT ![h] = ConnectFailed(task[h], total_upstreams)]
     ELSE \E upstream_idx \in available_upstreams :
            task' = [task EXCEPT ![h] =
              [l EXCEPT !.tried_upstreams = l.tried_upstreams \cup {upstream_idx},
                        !.dead_seen = dead_upstreams,
                        !.upstream_idx = <<upstream_idx>>,
                        !.contacted = TRUE,
                        !.attempted = l.attempted \cup {upstream_idx},
                        !.repeated = l.repeated \/ upstream_idx \in l.attempted,
                        !.pc = "cu_connect"]]
  /\ UNCHANGED <<aux, upstream_addresses, dead_upstreams, writer>>

\* a mutant of OnConnectResult: after a timeout the index is not marked and
\* the selection goes on
OnConnectResultTimeoutUnmarked(l, o) ==
  IF o.res = "ok"
  THEN [l EXCEPT !.upstream_conn = o.conn, !.dead_seen = {}, !.pc = "fw_write"]
  ELSE IF o.res = "error"
  THEN [l EXCEPT !.dead_seen = {}, !.pc = "cu_write_lock"]
  ELSE [l EXCEPT !.dead_seen = {}, !.pc = "cu_read_lock"]

\* main.rs:174-208: the match on the timed connect's result o.  Ok(Ok(stream)):
\* connect_to_upstream returns the stream and the index, and the handler awaits
\* the write of the request (main.rs:292-296).  Ok(Err(..)) (main.rs:179-192)
\* and Err(_), the timeout (main.rs:193-207): the write lock is awaited.
OnConnectResult(l, o) ==
  IF o.res = "ok"
  THEN [l EXCEPT !.upstream_conn = o.conn, !.dead_seen = {}, !.pc = "fw_write"]
  ELSE IF o.res = "error"
  THEN [l EXCEPT !.dead_seen = {}, !.pc = "cu_write_lock"]
  ELSE [l EXCEPT !.dead_seen = {}, !.pc = "cu_write_lock"]

\* main.rs:169-172: the timed connect returns
CuConnect(h) ==
  LET l == task[h] IN
  /\ l.pc = "cu_connect"
  /\ \E o \in ConnectOutcomes(upstream_addresses[l.upstream_idx[1]], l.request.m) :
       task' = [task EXCEPT ![h] = OnConnectResult(l, o)]
  /\ UNCHANGED <<aux, upstream_addresses, dead_upstreams, readers, writer>>

\* a mutant of CuWriteLock: the write guard is granted while guards are held
CuWriteLockBarges(h) ==
  /\ task[h].pc = "cu_write_lock"
  /\ writer' = writer \cup {h}
  /\ task' = [task EXCEPT ![h].pc = "cu_mark"]
  /\ UNCHANGED <<aux, upstream_addresses, dead_upstreams, readers>>

\* main.rs:186 and 201: dead_upstreams.write().await is granted
CuWriteLock(h) ==
  /\ task[h].pc = "cu_write_lock"
  /\ readers = {} /\ writer = {}
  /\ writer' = {h}
  /\ task' = [task EXCEPT ![h].pc = "cu_mark"]
  /\ UNCHANGED <<aux, upstream_addresses, dead_upstreams, readers>>

\* a mutant of CuMark: the failed index is not inserted
CuMarkForgets(h) ==
  LET l == task[h] IN
  /\ l.pc = "cu_mark"
  /\ dead_upstreams' = dead_upstreams
  /\ writer' = writer \ {h}
  /\ IF Cardinality(l.tried_upstreams) < total_upstreams
     THEN task' = [task EXCEPT ![h].pc = "cu_read_lock"]
     ELSE task' = [task EXCEPT ![h] = ConnectFailed(l, total_upstreams)]
  /\ UNCHANGED <<aux, upstream_addresses, readers>>

\* a mutant of CuMark: the first failed connect ends connect_to_upstream
CuMarkGivesUp(h) ==
  LET l == task[h] IN
  /\ l.pc = "cu_mark"
  /\ dead_upstreams' = dead_upstreams \cup {l.upstream_idx[1]}
  /\ writer' = writer \ {h}
  /\ task' = [task EXCEPT ![h] = ConnectFailed(l, total_upstreams)]
  /\ UNCHANGED <<aux, upstream_addresses, readers>>

\* main.rs:187-188 and 202-203, then the loop test of main.rs:139: the index is
\* inserted and the guard dropped; with every index tried connect_to_upstream
\* returns Err (main.rs:212-216)
CuMark(h) ==
  LET l == task[h] IN
  /\ l.pc = "cu_mark"
  /\ dead_upstreams' = dead_upstreams \cup {l.upstream_idx[1]}
  /\ writer' = writer \ {h}
  /\ IF Cardinality(l.tried_upstreams) < total_upstreams
     THEN task' = [task EXCEPT ![h].pc = "cu_read_lock"]
     ELSE task' = [task EXCEPT ![h] = ConnectFailed(l, total_upstreams)]
  /\ UNCHANGED <<aux, upstream_addresses, readers>>

\* main.rs:296-305: request::write_to_stream returns.  Ok: the response is
\* awaited.  Err: the connection is dropped and the write lock awaited.
FwWrite(h) ==
  LET l == task[h] IN
  /\ l.pc = "fw_write"
  /\ IF l.upstream_conn[1].wfail
     THEN task' = [task EXCEPT ![h] =
            [l EXCEPT !.upstream_conn = <<>>, !.pc = "fw_write_lock"]]
     ELSE task' = [task EXCEPT ![h] =
            [l EXCEPT !.fwd = Append(l.fwd, [idx |-> l.upstream_idx[1],
                                             req |-> l.request]),
                      !.buf = <<>>,
                      !.pc = "fw_read_headers"]]
  /\ UNCHANGED <<aux, upstream_addresses, dead_upstreams, readers, writer>>

\* response.rs:87-90: a read of the upstream socket in read_headers returns
RspReadHeaders(h) ==
  /\ task[h].pc = "fw_read_headers"
  /\ \E r \in ReadResults(task[h].upstream_conn[1],
                          MAX_HEADERS_SIZE - Len(task[h].buf)) :
       task' = [task EXCEPT ![h] = ResponseHeadersRead(task[h], r)]
  /\ UNCHANGED <<aux, upstream_addresses, dead_upstreams, readers, writer>>

\* response.rs:119-123: a read of the upstream socket in read_body returns
RspReadBody(h) ==
  /\ task[h].pc = "fw_read_body"
  /\ \E r \in ReadResults(task[h].upstream_conn[1], READ_BUF_SIZE) :
       task' = [task EXCEPT ![h] = ResponseBodyRead(task[h], r)]
  /\ UNCHANGED <<aux, upstream_addresses, dead_upstreams, readers, writer>>

\* main.rs:308-311 and 332: the 1 s timeout ends response::read_from_stream
\* while its read waits for an upstream that sends nothing
RspTimeout(h) ==
  /\ task[h].pc \in {"fw_read_headers", "fw_read_body"}
  /\ task[h].upstream_conn[1].bytes = <<>>
  /\ task[h].upstream_conn[1].end = "idle"
  /\ task' = [task EXCEPT ![h] = OnResponseResult(task[h], ErrRsp("Timeout"))]
  /\ UNCHANGED <<aux, upstream_addresses, dead_upstreams, readers, writer>>

\* main.rs:300, 326 and 336: dead_upstreams.write().await is granted
FwWriteLock(h) ==
  /\ task[h].pc = "fw_write_lock"
  /\ readers = {} /\ writer = {}
  /\ writer' = {h}
  /\ task' = [task EXCEPT ![h].pc = "fw_mark"]
  /\ UNCHANGED <<aux, upstream_addresses, dead_upstreams, readers>>

\* a mutant of FwMark: the failed index is not inserted
FwMarkForgets(h) ==
  LET l == task[h] IN
  /\ l.pc = "fw_mark"
  /\ dead_upstreams' = dead_upstreams
  /\ writer' = writer \ {h}
  /\ task' = [task EXCEPT ![h] = LoopHead(l, total_upstreams)]
  /\ UNCHANGED <<aux, upstream_addresses, readers>>

\* a mutant of FwMark: the dead-set is replaced by the failed index
FwMarkReplaces(h) ==
  LET l == task[h] IN
  /\ l.pc = "fw_mark"
  /\ dead_upstreams' = {l.upstream_idx[1]}
  /\ writer' = writer \ {h}
  /\ task' = [task EXCEPT ![h] = LoopHead(l, total_upstreams)]
  /\ UNCHANGED <<aux, upstream_addresses, readers>>

\* main.rs:301-303, 327-330 and 337-340: the index is inserted, the guard
\* dropped and the retry loop continued
FwMark(h) ==
  LET l == task[h] IN
  /\ l.pc = "fw_mark"
  /\ dead_upstreams' = dead_upstreams \cup {l.upstream_idx[1]}
  /\ writer' = writer \ {h}
  /\ task' = [task EXCEPT ![h] = LoopHead(l, total_upstreams)]
  /\ UNCHANGED <<aux, upstream_addresses, readers>>

\* a mutant of SendResponse: success is not set after a relayed response, so
\* the retry loop goes on for the same request
SendResponseLosesSuccess(h) ==
  LET l == task[h]
      p == l.pending[1]
  IN
  /\ l.pc = "send"
  /\ \E delivered \in (IF l.client.end = "reset" THEN {TRUE, FALSE} ELSE {TRUE}) :
       task' = [task EXCEPT ![h] =
         LET l2 == [l EXCEPT !.out = Append(l.out, [rsp |-> p.rsp,
                                                    delivered |-> delivered])]
         IN IF p.next = "closed" THEN Return(l2)
            ELSE IF p.rsp.cause = "relay"
            THEN LoopHead([l2 EXCEPT !.upstream_conn = <<>>, !.pending = <<>>],
                          total_upstreams)
            ELSE NextRequest(l2)]
  /\ UNCHANGED <<aux, upstream_addresses, dead_upstreams, readers, writer>>

\* main.rs:219-226: send_response returns; a failed write is logged and
\* ignored.  After a relayed response the upstream connection is dropped
\* (main.rs:319).  The handler goes on where the caller continues: the next
\* request (a fresh header buffer, request.rs:103-104) or the return.
SendResponse(h) ==
  LET l == task[h]
      p == l.pending[1]
  IN
  /\ l.pc = "send"
  /\ \E delivered \in (IF l.client.end = "reset" THEN {TRUE, FALSE} ELSE {TRUE}) :
       task' = [task EXCEPT ![h] =
         LET l2 == [l EXCEPT !.out = Append(l.out, [rsp |-> p.rsp,
                                                    delivered |-> delivered])]
         IN IF p.next = "closed" THEN Return(l2) ELSE NextRequest(l2)]
  /\ UNCHANGED <<aux, upstream_addresses, dead_upstreams, readers, writer>>

HandlerStep(h) ==
    \/ Accept(h)
    \/ ReqReadHeaders(h)
    \/ ReqReadBody(h)
    \/ CuReadLock(h)
    \/ CuSelect(h)
    \/ CuConnect(h)
    \/ CuWriteLock(h)
    \/ CuMark(h)
    \/ FwWrite(h)
    \/ RspReadHeaders(h)
    \/ RspReadBody(h)
    \/ RspTimeout(h)
    \/ FwWriteLock(h)
    \/ FwMark(h)
    \/ SendResponse(h)

Next == \E h \in Handlers : HandlerStep(h)

Spec == Init /\ [][Next]_vars

\* the scheduler runs the task of the connection whenever it can take a step
FairSpec == Spec /\ \A h \in Handlers : WF_vars(HandlerStep(h))

SpecConc == InitConc /\ [][Next]_vars

\* the scheduler runs every task that can take a step
FairConc == SpecConc /\ \A h \in Handlers : WF_vars(HandlerStep(h))

\* clients that connect, send nothing more and keep the connection open
StalledClients == {Stream(<<>>, "idle"), Stream(<<S>>, "idle")}

\* NumHandlers connections run together; the first client may be a stalled one
InitStall ==
  /\ InitProxyState
  /\ codec = NoCodec
  /\ ll = NoLists
  /\ pm = NoMap
  /\ dbg = NoDebugger
  /\ upstream_addresses \in UpstreamLists({"flaky"})
  /\ \E c \in StalledClients \cup {PlainClient(1)} :
       task = [h \in Handlers |-> InitTask(IF h = 1 THEN c ELSE PlainClient(h))]

SpecStall == InitStall /\ [][Next]_vars

\* the scheduler runs every task that can take a step
FairStall == SpecStall /\ \A h \in Handlers : WF_vars(HandlerStep(h))

\* ------------------------------------------------- the request codec
\* request.rs as a function of the request's text.  The text is a sequence of
\* tokens: a method, " ", a target, " ", a version, CRLF, then for each header
\* line its name, ":", an optional " ", its value, CRLF, then CRLF and the body.
CRLF == "CRLF"

\* a mutant of Lower: header names keep the case they arrived in
LowerKeepsCase(name) == name

\* http::HeaderName::from_bytes stores a header name in lower case
Lower(name) ==
  CASE name = "Host" -> "host"
    [] name = "Content-Length" -> "content-length"
    [] name = "X-Forwarded-For" -> "x-forwarded-for"
    [] OTHER -> name

\* http::HeaderMap: the names in the order of their first insertion, each with
\* its values in the order they were appended
HmIndex(map, name) ==
  LET I == {i \in 1..Len(map) : map[i].name = name}
  IN IF I = {} THEN 0 ELSE CHOOSE i \in I : TRUE

\* HeaderMap::append, which request::Builder::header calls (request.rs:84)
HmAppend(map, name, value) ==
  LET i == HmIndex(map, name)
  IN IF i = 0 THEN Append(map, [name |-> name, values |-> <<value>>])
     ELSE [map EXCEPT ![i].values = Append(@, value)]

\* HeaderMap::insert (request.rs:61-63): all previous values are removed
HmInsert(map, name, value) ==
  LET i == HmIndex(map, name)
  IN IF i = 0 THEN Append(map, [name |-> name, values |-> <<value>>])
     ELSE [map EXCEPT ![i].values = <<value>>]

\* HeaderMap::get (request.rs:31 and 55): the first value, <<>> for None
HmGet(map, name) ==
  LET i == HmIndex(map, name)
  IN IF i = 0 THEN <<>> ELSE <<map[i].values[1]>>

\* HeaderMap::iter (request.rs:195): each name once per value
RECURSIVE HmIter(_)
HmIter(map) ==
  IF map = <<>> THEN <<>>
  ELSE [k \in 1..Len(map[1].values) |->
          [name |-> map[1].name, value |-> map[1].values[k]]]
       \o HmIter(Tail(map))

\* httparse: the index of the CRLF that ends the header value starting at j,
\* 0 if the buffer ends before it
RECURSIVE ValueEnd(_, _)
ValueEnd(buf, j) ==
  IF j > Len(buf) THEN 0
  ELSE IF buf[j] = CRLF THEN j
  ELSE ValueEnd(buf, j + 1)

\* httparse on the header lines from index i on, the lines before it being in
\* map (request.rs:83-85 adds each to the request): [res, len, map]
RECURSIVE ParseHeaderLines(_, _, _)
ParseHeaderLines(buf, i, map) ==
  IF i > Len(buf) THEN [res |-> "partial", len |-> 0, map |-> map]
  ELSE IF buf[i] = CRLF THEN [res |-> "complete", len |-> i, map |-> map]
  ELSE IF i + 1 > Len(buf) THEN [res |-> "partial", len |-> 0, map |-> map]
  ELSE IF buf[i + 1] # ":" THEN [res |-> "malformed", len |-> 0, map |-> map]
  ELSE LET j == IF i + 2 <= Len(buf) /\ buf[i + 2] = " " THEN i + 3 ELSE i + 2
           e == ValueEnd(buf, j)
       IN IF e = 0 THEN [res |-> "partial", len |-> 0, map |-> map]
          ELSE IF e = j THEN [res |-> "malformed", len |-> 0, map |-> map]
          ELSE ParseHeaderLines(buf, e + 1,
                 HmAppend(map, Lower(buf[i]), SubSeq(buf, j, e - 1)))

\* the request of the codec: what http::Request<Vec<u8>> holds
CodecRequest(method, uri, headers, body) ==
  [method |-> method, uri |-> uri, version |-> "HTTP/1.1",
   headers |-> headers, body |-> body]

\* request.rs:73-91 parse_request: the version the client sent is parsed and
\* dropped, the request is built with HTTP/1.1 and an empty body
parse_request(buf) ==
  IF Len(buf) < 6 THEN [res |-> "partial", len |-> 0]
  ELSE IF buf[2] # " " \/ buf[4] # " " \/ buf[6] # CRLF
          \/ buf[5] \notin {"HTTP/1.0", "HTTP/1.1"}
  THEN [res |-> "malformed", len |-> 0]
  ELSE LET h == ParseHeaderLines(buf, 7, <<>>)
       IN IF h.res # "complete" THEN [res |-> h.res, len |-> 0]
          ELSE [res |-> "complete", len |-> h.len,
                request |-> CodecRequest(buf[1], buf[3], h.map, <<>>)]

\* str::parse::<usize> on a Content-Length value: <<n>>, or <<>> for an error
ParseUsize(value) ==
  IF value = <<"0">> THEN <<0>>
  ELSE IF value = <<"2">> THEN <<2>>
  ELSE <<>>

\* request.rs:172-184 read_from_stream on a client that sends text and no
\* more: read_headers makes the bytes after the header block the body and
\* read_body reads up to the declared length
read_from_stream(text) ==
  LET p == parse_request(text) IN
  IF p.res = "partial" THEN [ok |-> FALSE, kind |-> "IncompleteRequest"]
  ELSE IF p.res = "malformed" THEN [ok |-> FALSE, kind |-> "MalformedRequest"]
  ELSE LET req == [p.request EXCEPT !.body = Drop(text, p.len)]
           cl == HmGet(req.headers, "content-length")
       IN IF cl = <<>> THEN [ok |-> TRUE, request |-> req]
          ELSE IF ParseUsize(cl[1]) = <<>>
          THEN [ok |-> FALSE, kind |-> "InvalidContentLength"]
          ELSE IF ParseUsize(cl[1])[1] > MAX_BODY_SIZE
          THEN [ok |-> FALSE, kind |-> "RequestBodyTooLarge"]
          ELSE IF Len(req.body) < ParseUsize(cl[1])[1]
          THEN [ok |-> FALSE, kind |-> "ContentLengthMismatch"]
          ELSE [ok |-> TRUE, request |-> req]

\* request.rs:50-64 extend_header_value
extend_header_value(request, name, extend_value) ==
  LET existing == HmGet(request.headers, name)
      new_value == IF existing # <<>>
                   THEN existing[1] \o <<", ">> \o extend_value
                   ELSE extend_value
  IN [request EXCEPT !.headers = HmInsert(request.headers, name, new_value)]

\* request.rs:207-209 format_request_line
format_request_line(request) ==
  <<request.method, " ", request.uri, " ", request.version>>

\* request.rs:195-199: the buffers of the three writes of each header line
RECURSIVE HeaderWrites(_)
HeaderWrites(lines) ==
  IF lines = <<>> THEN <<>>
  ELSE <<<<lines[1].name, ":", " ">>, lines[1].value, <<CRLF>>>>
       \o HeaderWrites(Tail(lines))

\* request.rs:193-203 write_to_stream: the buffers it passes to stream.write,
\* in order; the body is written only if it is not empty
WriteBuffers(request) ==
  <<format_request_line(request), <<CRLF>>>>
    \o HeaderWrites(HmIter(request.headers))
    \o <<<<CRLF>>>>
    \o (IF Len(request.body) > 0 THEN <<request.body>> ELSE <<>>)

RECURSIVE Concat(_)
Concat(bufs) == IF bufs = <<>> THEN <<>> ELSE bufs[1] \o Concat(Tail(bufs))

\* ---- the codec's inputs: valid requests with a declared Content-Length
Line(name, sep, value) == [name |-> name, sep |-> sep, value |-> value]
LineText(line) == <<line.name>> \o line.sep \o line.value \o <<CRLF>>

RECURSIVE LinesText(_)
LinesText(lines) ==
  IF lines = <<>> THEN <<>> ELSE LineText(lines[1]) \o LinesText(Tail(lines))

\* what a client writes for the request in
RequestText(in) ==
  <<in.method, " ", "/", " ", in.version, CRLF>>
    \o LinesText(in.lines) \o <<CRLF>> \o in.body

Colon == <<":">>
ColonSp == <<":", " ">>
HostA == <<"a.example">>
\* the header lines before the Content-Length line
HeaderChoices ==
  {<<>>,
   <<Line("host", ColonSp, HostA)>>,
   <<Line("Host", ColonSp, HostA)>>,
   <<Line("host", Colon, HostA)>>,
   <<Line("x-forwarded-for", ColonSp, <<"1.2.3.4">>)>>,
   <<Line("x-forwarded-for", ColonSp, <<"1.2.3.4">>),
     Line("x-forwarded-for", ColonSp, <<"9.9.9.9">>)>>,
   <<Line("X-Forwarded-For", ColonSp, <<"1.2.3.4">>),
     Line("host", ColonSp, HostA),
     Line("x-forwarded-for", ColonSp, <<"9.9.9.9">>)>>}
BodyChoices == {[body |-> <<>>, cl |-> <<"0">>], [body |-> <<"b1", "b2">>, cl |-> <<"2">>]}

CodecInputs ==
  {[method |-> IF b.body = <<>> THEN "GET" ELSE "POST",
    version |-> v,
    lines |-> Append(hs, Line(cn, ColonSp, b.cl)),
    body |-> b.body] :
     v \in {"HTTP/1.0", "HTTP/1.1"}, hs \in HeaderChoices, b \in BodyChoices,
     cn \in {"content-length", "Content-Length"}}

\* the client address main.rs:229 reads from the socket
ClientIp == <<"5.6.7.8">>

proxy == <<upstream_addresses, dead_upstreams, readers, writer, task>>

\* a request text arrives at the codec; the proxy itself is not running
InitCodec ==
  /\ InitProxyState
  /\ upstream_addresses = <<>>
  /\ task = [h \in Handlers |-> InitTask(NoClient)]
  /\ ll = NoLists
  /\ pm = NoMap
  /\ dbg = NoDebugger
  /\ \E in \in CodecInputs :
       codec = [pc |-> "decode", in |-> in, text |-> RequestText(in),
                request |-> <<>>, before |-> <<>>, extended |-> FALSE,
                bufs |-> <<>>, written |-> <<>>, short |-> FALSE,
                sent |-> <<>>]

\* main.rs:235: request::read_from_stream returns
CodecDecode ==
  /\ codec.pc = "decode"
  /\ LET r == read_from_stream(codec.text) IN
       codec' = IF r.ok
                THEN [codec EXCEPT !.pc = "decoded", !.request = <<r.request>>]
                ELSE [codec EXCEPT !.pc = "rejected"]
  /\ UNCHANGED <<proxy, ll, pm, dbg>>

\* main.rs:268: the client's address is added to X-Forwarded-For
CodecExtend ==
  /\ codec.pc = "decoded"
  /\ codec' = [codec EXCEPT
       !.pc = "extended",
       !.before = codec.request,
       !.extended = TRUE,
       !.request = <<extend_header_value(codec.request[1], "x-forwarded-for",
                                         ClientIp)>>]
  /\ UNCHANGED <<proxy, ll, pm, dbg>>

\* request.rs:189-192: write_to_stream is called with the request, as decoded
\* or as extended
CodecEncode ==
  /\ codec.pc \in {"decoded", "extended"}
  /\ codec' = [codec EXCEPT !.pc = "write",
                            !.bufs = WriteBuffers(codec.request[1])]
  /\ UNCHANGED <<proxy, ll, pm, dbg>>

\* request.rs:193-203: one stream.write(buf)? returns Ok(n); n is not looked
\* at and the next buffer is written next; after the last, Ok(()) is returned
CodecWrite ==
  /\ codec.pc = "write"
  /\ \E n \in 1..Len(codec.bufs[1]) :
       codec' = [codec EXCEPT
         !.written = codec.written \o Take(codec.bufs[1], n),
         !.short = codec.short \/ n < Len(codec.bufs[1]),
         !.bufs = Tail(codec.bufs),
         !.pc = IF Len(codec.bufs) = 1 THEN "done" ELSE "write"]
  /\ UNCHANGED <<proxy, ll, pm, dbg>>

\* main.rs:275-296: the forward to the first upstream failed after the request
\* was written, and the next turn of the retry loop calls write_to_stream with
\* the same request on the connection to another upstream; sent keeps what
\* each earlier upstream was written.  The model follows one retry, after an
\* attempt whose writes were all accepted whole.
CodecRetry ==
  /\ codec.pc = "done"
  /\ codec.extended
  /\ ~codec.short
  /\ codec.sent = <<>>
  /\ codec' = [codec EXCEPT !.pc = "write",
                            !.sent = Append(codec.sent, codec.written),
                            !.written = <<>>,
                            !.short = FALSE,
                            !.bufs = WriteBuffers(codec.request[1])]
  /\ UNCHANGED <<proxy, ll, pm, dbg>>

NextCodec ==
    \/ CodecDecode
    \/ CodecExtend
    \/ CodecEncode
    \/ CodecWrite
    \/ CodecRetry

SpecCodec == InitCodec /\ [][NextCodec]_vars

\* ------------------------------------------- week3 linked_list.rs
\* A program that owns up to two lists (list1, list2 as in the tests) and calls
\* the methods of LinkedList<T> on them.  A Box<Node<T>> is an address of the
\* heap; Option<X> is None or Some(x).
MaxListLen == 2
Values == {1, 2}
Addrs == 1..(2 * MaxListLen)
Slots == {"list1", "list2"}
None == <<>>
Some(x) == <<x>>

\* linked_list.rs:15-17 Node::new
Node(value, next) == [value |-> value, next |-> next]

\* Box::new: the address of the cell the allocator hands out
Alloc(heap) ==
  CHOOSE a \in Addrs : heap[a] = None /\ \A b \in Addrs : b < a => heap[b] # None

\* the node behind a Box
Deref(heap, a) == heap[a][1]

\* linked_list.rs:30-32 new
new == [head |-> None, size |-> 0]

\* linked_list.rs:34-36 get_size
get_size(list) == list.size

\* linked_list.rs:38-40 is_empty
is_empty(list) == get_size(list) = 0

\* linked_list.rs:42-46 push_front
push_front(heap, list, value) ==
  LET a == Alloc(heap) IN
  [heap |-> [heap EXCEPT ![a] = Some(Node(value, list.head))],
   list |-> [head |-> Some(a), size |-> list.size + 1]]

\* linked_list.rs:48-53 pop_front: the head's Box is taken, its next and value
\* moved out and the Box freed; on an empty list the ? returns None at once
pop_front(heap, list) ==
  IF list.head = None
  THEN [heap |-> heap, list |-> list, ret |-> None]
  ELSE LET a == list.head[1]
           node == Deref(heap, a)
       IN [heap |-> [heap EXCEPT ![a] = None],
           list |-> [head |-> node.next, size |-> list.size - 1],
           ret |-> Some(node.value)]

\* linked_list.rs:56-58 peek
peek(heap, list) ==
  IF list.head = None THEN None ELSE Some(Deref(heap, list.head[1]).value)

\* linked_list.rs:61-63 peek_mut, and the caller's write through the reference
\* (linked_list.rs:291-293)
peek_mut_set(heap, list, value) ==
  IF list.head = None THEN heap
  ELSE [heap EXCEPT ![list.head[1]] = Some([Deref(heap, list.head[1])
                                              EXCEPT !.value = value])]

\* dropping an Option<Box<Node<T>>>: the chain of boxes behind it is freed
\* (linked_list.rs:148-155 for a list, the drop glue of Node for a chain)
RECURSIVE DropChain(_, _)
DropChain(heap, cur) ==
  IF cur = None \/ heap[cur[1]] = None THEN heap
  ELSE DropChain([heap EXCEPT ![cur[1]] = None], Deref(heap, cur[1]).next)

\* linked_list.rs:66-69 clear: the old head is dropped by the assignment
clear(heap, list) ==
  [heap |-> DropChain(heap, list.head), list |-> [head |-> None, size |-> 0]]

\* linked_list.rs:72-80 to_vec, from the node current on
RECURSIVE ToVecFrom(_, _)
ToVecFrom(heap, current) ==
  IF current = None \/ heap[current[1]] = None THEN <<>>
  ELSE <<Deref(heap, current[1]).value>>
         \o ToVecFrom(heap, Deref(heap, current[1]).next)

to_vec(heap, list) == ToVecFrom(heap, list.head)

\* linked_list.rs:85-87: the loop of from_vec over vec.into_iter().rev(), the
\* items vec[1..k] still to come
RECURSIVE PushAllRev(_, _, _, _)
PushAllRev(heap, list, vec, k) ==
  IF k = 0 THEN [heap |-> heap, list |-> list]
  ELSE LET p == push_front(heap, list, vec[k])
       IN PushAllRev(p.heap, p.list, vec, k - 1)

\* linked_list.rs:83-89 from_vec
from_vec(heap, vec) == PushAllRev(heap, new, vec, Len(vec))

\* a mutant of CloneChain: the boxes are shared, not copied
CloneChainShares(heap, cur) == [heap |-> heap, head |-> cur]

\* linked_list.rs:20-27 Clone for Node behind Option<Box<..>>::clone: the value
\* is cloned, the rest of the chain is cloned, and the new node is boxed
RECURSIVE CloneChain(_, _)
CloneChain(heap, cur) ==
  IF cur = None THEN [heap |-> heap, head |-> None]
  ELSE LET node == Deref(heap, cur[1])
           rest == CloneChain(heap, node.next)
           a == Alloc(rest.heap)
       IN [heap |-> [rest.heap EXCEPT ![a] = Some(Node(node.value, rest.head))],
           head |-> Some(a)]

\* linked_list.rs:93-98 clone
clone(heap, list) ==
  LET c == CloneChain(heap, list.head)
  IN [heap |-> c.heap, list |-> [head |-> c.head, size |-> list.size]]

\* linked_list.rs:109-121: the loop of eq from the nodes cs and co on
RECURSIVE EqFrom(_, _, _)
EqFrom(heap, current_self, current_other) ==
  IF current_self = None \/ current_other = None THEN TRUE
  ELSE IF Deref(heap, current_self[1]).value # Deref(heap, current_other[1]).value
  THEN FALSE
  ELSE EqFrom(heap, Deref(heap, current_self[1]).next,
              Deref(heap, current_other[1]).next)

\* a mutant of eq: the sizes are not compared
eqIgnoringSize(heap, self, other) == EqFrom(heap, self.head, other.head)

\* linked_list.rs:102-122 eq
eq(heap, self, other) ==
  IF self.size # other.size THEN FALSE
  ELSE EqFrom(heap, self.head, other.head)

\* a mutant of LlPopFront: the size is left as it was
LlPopFrontKeepsSize(s) ==
  /\ ll.pc = "run" /\ ll.lists[s] # None
  /\ LET p == pop_front(ll.heap, ll.lists[s][1]) IN
       ll' = [ll EXCEPT !.heap = p.heap,
                        !.lists[s] = Some([p.list EXCEPT !.size = ll.lists[s][1].size]),
                        !.ret = p.ret,
                        !.built[s] = [@ EXCEPT !.seq = <<>>, !.touched = TRUE]]
  /\ UNCHANGED <<proxy, codec, pm, dbg>>

\* the vectors a program passes to from_vec
RECURSIVE SeqsUpTo(_)
SeqsUpTo(n) ==
  IF n = 0 THEN {<<>>}
  ELSE SeqsUpTo(n - 1) \cup [1..n -> Values]

\* how a list was made, as far as the claims need it: by new (seq: the values
\* pushed since, in the order they were pushed), by from_vec (seq: the vector)
\* or by clone; touched: a method other than push_front on a list made by new
\* has changed it since, and seq is no longer kept
Built(how, seq) == [how |-> how, seq |-> seq, touched |-> FALSE]
Touched(built) == [built EXCEPT !.seq = <<>>, !.touched = TRUE]

\* linked_list.rs:163 let list1 = LinkedList::new(): the program starts with
\* one empty list
InitLists ==
  /\ InitProxyState
  /\ upstream_addresses = <<>>
  /\ task = [h \in Handlers |-> InitTask(NoClient)]
  /\ codec = NoCodec
  /\ pm = NoMap
  /\ dbg = NoDebugger
  /\ ll = [pc |-> "run",
           heap |-> [a \in Addrs |-> None],
           lists |-> [s \in Slots |-> IF s = "list1" THEN Some(new) ELSE None],
           built |-> [s \in Slots |-> Built("new", <<>>)],
           ret |-> None]

\* list.push_front(value)
LlPushFront(s, value) ==
  /\ ll.pc = "run" /\ ll.lists[s] # None
  /\ ll.lists[s][1].size < MaxListLen
  /\ LET p == push_front(ll.heap, ll.lists[s][1], value) IN
       ll' = [ll EXCEPT !.heap = p.heap,
                        !.lists[s] = Some(p.list),
                        !.built[s] = IF @.how = "new" /\ ~@.touched
                                     THEN Built("new", Append(@.seq, value))
                                     ELSE Touched(@)]
  /\ UNCHANGED <<proxy, codec, pm, dbg>>

\* list.pop_front()
LlPopFront(s) ==
  /\ ll.pc = "run" /\ ll.lists[s] # None
  /\ LET p == pop_front(ll.heap, ll.lists[s][1]) IN
       ll' = [ll EXCEPT !.heap = p.heap,
                        !.lists[s] = Some(p.list),
                        !.ret = p.ret,
                        !.built[s] = Touched(@)]
  /\ UNCHANGED <<proxy, codec, pm, dbg>>

\* list.peek()
LlPeek(s) ==
  /\ ll.pc = "run" /\ ll.lists[s] # None
  /\ ll' = [ll EXCEPT !.ret = peek(ll.heap, ll.lists[s][1])]
  /\ UNCHANGED <<proxy, codec, pm, dbg>>

\* if let Some(v) = list.peek_mut() { *v = value }
LlPeekMut(s, value) ==
  /\ ll.pc = "run" /\ ll.lists[s] # None
  /\ ll' = [ll EXCEPT !.heap = peek_mut_set(ll.heap, ll.lists[s][1], value),
                      !.built[s] = Touched(@)]
  /\ UNCHANGED <<proxy, codec, pm, dbg>>

\* list.clear()
LlClear(s) ==
  /\ ll.pc = "run" /\ ll.lists[s] # None
  /\ LET c == clear(ll.heap, ll.lists[s][1]) IN
       ll' = [ll EXCEPT !.heap = c.heap,
                        !.lists[s] = Some(c.list),
                        !.built[s] = Touched(@)]
  /\ UNCHANGED <<proxy, codec, pm, dbg>>

\* let list2 = list1.clone()
LlClone ==
  /\ ll.pc = "run" /\ ll.lists["list1"] # None /\ ll.lists["list2"] = None
  /\ LET c == clone(ll.heap, ll.lists["list1"][1]) IN
       ll' = [ll EXCEPT !.heap = c.heap,
                        !.lists["list2"] = Some(c.list),
                        !.built["list2"] = Built("clone", <<>>)]
  /\ UNCHANGED <<proxy, codec, pm, dbg>>

\* let list2 = LinkedList::from_vec(vec)
LlFromVec(vec) ==
  /\ ll.pc = "run" /\ ll.lists["list2"] = None
  /\ LET f == from_vec(ll.heap, vec) IN
       ll' = [ll EXCEPT !.heap = f.heap,
                        !.lists["list2"] = Some(f.list),
                        !.built["list2"] = Built("from_vec", vec)]
  /\ UNCHANGED <<proxy, codec, pm, dbg>>

\* linked_list.rs:148-155: list2 goes out of scope
LlDrop ==
  /\ ll.pc = "run" /\ ll.lists["list2"] # None
  /\ ll' = [ll EXCEPT !.heap = DropChain(ll.heap, ll.lists["list2"][1].head),
                      !.lists["list2"] = None,
                      !.built["list2"] = Built("new", <<>>)]
  /\ UNCHANGED <<proxy, codec, pm, dbg>>

NextLists ==
    \/ \E s \in Slots, value \in Values : LlPushFront(s, value)
    \/ \E s \in Slots : LlPopFront(s)
    \/ \E s \in Slots : LlPeek(s)
    \/ \E s \in Slots, value \in Values : LlPeekMut(s, value)
    \/ \E s \in Slots : LlClear(s)
    \/ LlClone
    \/ \E vec \in SeqsUpTo(MaxListLen) : LlFromVec(vec)
    \/ LlDrop

SpecLists == InitLists /\ [][NextLists]_vars

\* ------------------------------------------- week6 parallel_map/src/main.rs
\* One call parallel_map(input_vec, num_threads, f): the main thread, the
\* worker threads it spawns and the two unbounded crossbeam channels.  A
\* channel is the queue of its messages and the senders still alive; recv
\* takes the head and blocks on an empty queue until every sender is dropped.
\* A sender is named by the thread that holds it: 0 is the main thread, w the
\* worker w.
\* Vec indices are 0-based as in the source; element i of a Vec is seq[i + 1].
MaxInputLen == 3
MaxThreads == 2
Items == {2, 3}
Workers == 1..MaxThreads

\* main.rs:63-67: the closure the program maps
f(num) == num * num
\* U::default() for the integers of main.rs:62
Default == 0

\* the vectors parallel_map is called with
RECURSIVE VecsUpTo(_)
VecsUpTo(n) ==
  IF n = 0 THEN {<<>>}
  ELSE LET shorter == VecsUpTo(n - 1) IN
       shorter \cup {Append(v, x) : v \in {u \in shorter : Len(u) = n - 1},
                                    x \in Items}

\* main.rs:10-17: the output vector filled with defaults, the two channels,
\* no thread spawned yet.  calls, taker and arrived are history: how often f
\* was applied to each index, by which worker, and the indices in the order
\* their results were received.
InitMap ==
  /\ InitProxyState
  /\ upstream_addresses = <<>>
  /\ task = [h \in Handlers |-> InitTask(NoClient)]
  /\ codec = NoCodec
  /\ ll = NoLists
  /\ dbg = NoDebugger
  /\ \E input_vec \in VecsUpTo(MaxInputLen), num_threads \in 0..MaxThreads :
       pm = [pc |-> "spawn",
             input_vec |-> input_vec,
             num_threads |-> num_threads,
             output_vec |-> [i \in 1..Len(input_vec) |-> Default],
             handles |-> 0,
             next_task |-> 0,
             task_chan |-> <<>>,
             task_sender |-> TRUE,
             result_chan |-> <<>>,
             result_senders |-> {0},
             worker |-> [w \in Workers |-> [pc |-> "none", item |-> <<>>]],
             joined |-> 0,
             calls |-> [i \in 0..(Len(input_vec) - 1) |-> 0],
             taker |-> [i \in 0..(Len(input_vec) - 1) |-> 0],
             arrived |-> <<>>]

\* main.rs:21-35: one turn of the spawn loop: the receiver and the result
\* sender are cloned into a new thread, which starts at its recv
PmSpawn ==
  /\ pm.pc = "spawn"
  /\ pm.handles < pm.num_threads
  /\ LET w == pm.handles + 1 IN
       pm' = [pm EXCEPT !.handles = w,
                        !.result_senders = pm.result_senders \cup {w},
                        !.worker[w].pc = "recv"]
  /\ UNCHANGED <<proxy, codec, ll, dbg>>

\* a mutant of PmDropResultSender: the main thread keeps its result sender
PmDropResultSenderKeeps ==
  /\ pm.pc = "spawn"
  /\ pm.handles = pm.num_threads
  /\ pm' = [pm EXCEPT !.pc = "send"]
  /\ UNCHANGED <<proxy, codec, ll, dbg>>

\* main.rs:38: after the spawn loop the main thread drops its result sender
PmDropResultSender ==
  /\ pm.pc = "spawn"
  /\ pm.handles = pm.num_threads
  /\ pm' = [pm EXCEPT !.pc = "send",
                      !.result_senders = pm.result_senders \ {0}]
  /\ UNCHANGED <<proxy, codec, ll, dbg>>

\* main.rs:41-43: the next (index, item) is sent on the task channel; the
\* main thread holds a receiver, so the send succeeds
PmSendTask ==
  /\ pm.pc = "send"
  /\ pm.next_task < Len(pm.input_vec)
  /\ pm' = [pm EXCEPT
       !.task_chan = Append(pm.task_chan,
                            <<pm.next_task, pm.input_vec[pm.next_task + 1]>>),
       !.next_task = pm.next_task + 1]
  /\ UNCHANGED <<proxy, codec, ll, dbg>>

\* main.rs:46: every task is sent and the task sender is dropped
PmDropTaskSender ==
  /\ pm.pc = "send"
  /\ pm.next_task = Len(pm.input_vec)
  /\ pm' = [pm EXCEPT !.pc = "collect", !.task_sender = FALSE]
  /\ UNCHANGED <<proxy, codec, ll, dbg>>

\* a mutant of StoreResult: the result is stored in the order of arrival
StoreResultInArrivalOrder(output_vec, index, result, arrived) ==
  [output_vec EXCEPT ![Len(arrived) + 1] = result]

\* main.rs:50: output_vec[index] = result
StoreResult(output_vec, index, result, arrived) ==
  [output_vec EXCEPT ![index + 1] = result]

\* main.rs:49-51: result_receiver.recv() returns.  Ok: the result is stored.
\* Err, when the queue is empty and every sender is dropped: the loop ends.
PmCollect ==
  /\ pm.pc = "collect"
  /\ IF pm.result_chan # <<>>
     THEN LET index == pm.result_chan[1][1]
              result == pm.result_chan[1][2]
          IN pm' = [pm EXCEPT
               !.result_chan = Tail(pm.result_chan),
               !.output_vec = StoreResult(pm.output_vec, index, result,
                                          pm.arrived),
               !.arrived = Append(pm.arrived, index)]
     ELSE /\ pm.result_senders = {}
          /\ pm' = [pm EXCEPT !.pc = "join"]
  /\ UNCHANGED <<proxy, codec, ll, dbg>>

\* main.rs:54-56: handle.join() of the next handle returns: that thread ended
PmJoin ==
  /\ pm.pc = "join"
  /\ pm.joined < pm.num_threads
  /\ pm.worker[pm.joined + 1].pc = "exited"
  /\ pm' = [pm EXCEPT !.joined = pm.joined + 1]
  /\ UNCHANGED <<proxy, codec, ll, dbg>>

\* main.rs:58: every handle is joined and output_vec is returned
PmReturn ==
  /\ pm.pc = "join"
  /\ pm.joined = pm.num_threads
  /\ pm' = [pm EXCEPT !.pc = "done"]
  /\ UNCHANGED <<proxy, codec, ll, dbg>>

\* main.rs:27: task_rx.recv() returns in worker w.  Ok: the head of the queue
\* is this worker's.  Err, when the queue is empty and the task sender is
\* dropped: the loop and the thread end, which drops its result sender.
WorkerRecv(w) ==
  /\ pm.pc # "none"
  /\ pm.worker[w].pc = "recv"
  /\ IF pm.task_chan # <<>>
     THEN pm' = [pm EXCEPT !.task_chan = Tail(pm.task_chan),
                           !.worker[w] = [pc |-> "send",
                                          item |-> pm.task_chan[1]]]
     ELSE /\ ~pm.task_sender
          /\ pm' = [pm EXCEPT !.worker[w].pc = "exited",
                              !.result_senders = pm.result_senders \ {w}]
  /\ UNCHANGED <<proxy, codec, ll, dbg>>

\* main.rs:28-30: f is applied to the item and (index, result) is sent on the
\* result channel; the main thread holds the receiver, so the send succeeds
WorkerSend(w) ==
  /\ pm.pc # "none"
  /\ pm.worker[w].pc = "send"
  /\ LET index == pm.worker[w].item[1]
         result == f(pm.worker[w].item[2])
     IN pm' = [pm EXCEPT
          !.result_chan = Append(pm.result_chan, <<index, result>>),
          !.worker[w] = [pc |-> "recv", item |-> <<>>],
          !.calls[index] = pm.calls[index] + 1,
          !.taker[index] = w]
  /\ UNCHANGED <<proxy, codec, ll, dbg>>

\* the main thread of parallel_map
PmMain ==
    \/ PmSpawn
    \/ PmDropResultSender
    \/ PmSendTask
    \/ PmDropTaskSender
    \/ PmCollect
    \/ PmJoin
    \/ PmReturn

\* the thread of worker w
PmWorker(w) ==
    \/ WorkerRecv(w)
    \/ WorkerSend(w)

NextMap ==
    \/ PmMain
    \/ \E w \in Workers : PmWorker(w)

SpecMap == InitMap /\ [][NextMap]_vars

\* the operating system runs every thread that is not blocked
FairMap == SpecMap /\ WF_vars(PmMain) /\ \A w \in Workers : WF_vars(PmWorker(w))

\* ------------------------------------------- proj-1 deet: debugger, inferior
\* The debugger at its prompt, the processes it spawned and the Inferior it
\* holds.  The target is straight-line code of one-byte instructions at the
\* addresses 1..ProgLen followed, at ProgEnd, by a branch that either returns
\* to address 1 or leaves the program; address 0 is not mapped.  A process is
\* "stopped" under ptrace while the debugger is at its prompt, or it has
\* "exited" or was "killed".  The backtrace and print commands change nothing
\* and are left out.
ProgLen == 3
MaxBreaks == 2
MaxRuns == 2
\* the int3 instruction, 0xcc
INT3 == 204
ProgEnd == ProgLen + 1
CodeAddrs == 1..ProgEnd
\* the addresses a break command can resolve to
BreakTargets == 0..ProgLen
\* the memory of the target as loaded: a push instruction at each address
Program == [a \in CodeAddrs |-> 80 + a]

\* inferior.rs:55-68 write_byte: the byte at addr is replaced and the byte that
\* was there returned; ptrace fails on a process that is not stopped and on an
\* address that is not mapped
write_byte(proc, addr, val) ==
  IF proc.state = "stopped" /\ addr \in DOMAIN proc.mem
  THEN [ok |-> TRUE, orig_byte |-> proc.mem[addr],
        proc |-> [proc EXCEPT !.mem[addr] = val]]
  ELSE [ok |-> FALSE, orig_byte |-> 0, proc |-> proc]

\* HashMap::insert
MapInsert(map, key, value) ==
  [k \in DOMAIN map \cup {key} |-> IF k = key THEN value ELSE map[k]]

\* inferior.rs:72-76 install_breakpoint, and the body of the loop of
\* Inferior::new (inferior.rs:112-121): 0xcc is written and the byte read back
\* is stored as orig_byte; on an error nothing is stored
install_breakpoint(inf, proc, addr) ==
  LET w == write_byte(proc, addr, INT3) IN
  IF w.ok
  THEN [inf |-> [inf EXCEPT !.breakpoints =
                   MapInsert(inf.breakpoints, addr, w.orig_byte)],
        proc |-> w.proc]
  ELSE [inf |-> inf, proc |-> proc]

\* inferior.rs:111-122: the breakpoints of the debugger's list are installed in
\* the new process, in the order of the list
RECURSIVE InstallAll(_, _, _)
InstallAll(inf, proc, breakpoints) ==
  IF breakpoints = <<>> THEN [inf |-> inf, proc |-> proc]
  ELSE LET one == install_breakpoint(inf, proc, breakpoints[1]) IN
       InstallAll(one.inf, one.proc, Tail(breakpoints))

\* inferior.rs:80-134 Inferior::new after a successful spawn: the child stops
\* at its first instruction with SIGTRAP and the breakpoints are installed
Inferior_new(pid, breakpoints) ==
  InstallAll([child |-> pid, breakpoints |-> <<>>],
             [state |-> "stopped", mem |-> Program, rip |-> 1],
             breakpoints)

Stopped(rip) == [kind |-> "Stopped", rip |-> rip]
Exited == [kind |-> "Exited", rip |-> 0]
ErrStatus == [kind |-> "Err", rip |-> 0]

\* the lowest address from..ProgLen that holds int3, 0 if there is none
RECURSIVE FirstTrap(_, _)
FirstTrap(mem, from) ==
  IF from > ProgLen THEN 0
  ELSE IF mem[from] = INT3 THEN from
  ELSE FirstTrap(mem, from + 1)

\* ptrace::step and wait (inferior.rs:169-172): what one instruction at rip
\* does.  An int3 traps with rip behind it, another instruction ends with rip
\* at the next one, the branch at ProgEnd goes back to 1 or ends the process.
StepResults(proc) ==
  IF proc.rip = ProgEnd THEN {Exited, Stopped(1)} ELSE {Stopped(proc.rip + 1)}

\* ptrace::cont and wait (inferior.rs:183-186): the process runs from rip until
\* it executes an int3, which stops it with rip behind the int3, or until it
\* leaves the program at the branch
ContResults(proc) ==
  LET t == FirstTrap(proc.mem, proc.rip)
      again == FirstTrap(proc.mem, 1)
  IN IF t # 0 THEN {Stopped(t + 1)}
     ELSE {Exited} \cup (IF again # 0 THEN {Stopped(again + 1)} ELSE {})

\* the process after wait returned status
After(proc, status) ==
  IF status.kind = "Exited" THEN [proc EXCEPT !.state = "exited"]
  ELSE [proc EXCEPT !.rip = status.rip]

\* inferior.rs:188-210: the status of the wait after ptrace::cont is looked
\* at: at a breakpoint the stored orig_byte is written back and rip rewound
AfterCont(inf, proc, status, resumed) ==
  LET p == After(proc, status) IN
  IF status.kind = "Stopped" /\ (status.rip - 1) \in DOMAIN inf.breakpoints
  THEN LET breakpoint_addr == status.rip - 1
           w == write_byte(p, breakpoint_addr, inf.breakpoints[breakpoint_addr])
       IN [status |-> status, resumed |-> resumed,
           proc |-> [w.proc EXCEPT !.rip = breakpoint_addr]]
  ELSE [status |-> status, proc |-> p, resumed |-> resumed]

\* inferior.rs:183-186 then 188-210: the process is resumed and waited for.
\* resumed is history: the memory it runs with and the addresses of the
\* breakpoint map at that time.
Resume(inf, proc) ==
  {AfterCont(inf, proc, status,
             Some([mem |-> proc.mem, breakpoints |-> DOMAIN inf.breakpoints]))
     : status \in ContResults(proc)}

\* inferior.rs:157-211 Inferior::cont: the results [status, proc, resumed] it
\* can have.  ptrace fails on a process that is not stopped.  If rip - 1 is a
\* breakpoint one instruction is stepped and 0xcc written at rip - 1 before
\* the process is resumed.
cont(inf, proc) ==
  IF proc.state # "stopped"
  THEN {[status |-> ErrStatus, proc |-> proc, resumed |-> None]}
  ELSE IF (proc.rip - 1) \in DOMAIN inf.breakpoints
  THEN UNION {IF status.kind = "Exited"
              THEN {[status |-> status, proc |-> After(proc, status),
                     resumed |-> None]}
              ELSE Resume(inf, write_byte(After(proc, status), proc.rip - 1,
                                          INT3).proc)
              : status \in StepResults(proc)}
  ELSE Resume(inf, proc)

\* inferior.rs:213-216 kill: the child is killed if it still runs
kill(proc) ==
  IF proc.state = "stopped" THEN [proc EXCEPT !.state = "killed"] ELSE proc

\* DwarfData::get_line_from_addr: whether the line table has the address
get_line_from_addr(lines, addr) == addr \in lines

\* debugger.rs:27-56 Debugger::new: no inferior, no breakpoint; the line table
\* of the target covers the whole program or all but its last address.
\* resumed is history: the inferior as it was when it was last resumed.
InitDeet ==
  /\ InitProxyState
  /\ upstream_addresses = <<>>
  /\ task = [h \in Handlers |-> InitTask(NoClient)]
  /\ codec = NoCodec
  /\ ll = NoLists
  /\ pm = NoMap
  /\ \E lines \in {CodeAddrs, 1..ProgLen} :
       dbg = [pc |-> "prompt",
              debug_data |-> lines,
              breakpoints |-> <<>>,
              inferior |-> None,
              procs |-> <<>>,
              resumed |-> None]

\* the process of the debugger's inferior
Child(d) == d.procs[d.inferior[1].child]

\* the debugger with its existing inferior, if any, killed
Killed(d) ==
  IF d.inferior = None THEN d
  ELSE [d EXCEPT !.procs[d.inferior[1].child] = kill(Child(d))]

\* the debugger after inferior.cont() returned r
Continued(d, r) ==
  [d EXCEPT !.procs[d.inferior[1].child] = r.proc,
            !.resumed = IF r.resumed = None THEN d.resumed ELSE r.resumed]

\* debugger.rs:61-103: the run command.  The existing inferior is killed, a
\* new one is started and continued; if the spawn fails the old Inferior
\* stays.  When the new inferior stops where the line table has no line the
\* break of debugger.rs:82 leaves the command loop.
DebuggerRun ==
  /\ dbg.pc = "prompt"
  /\ Len(dbg.procs) < MaxRuns
  /\ LET d1 == Killed(dbg) IN
     \/ dbg' = d1
     \/ LET pid == Len(d1.procs) + 1
            made == Inferior_new(pid, d1.breakpoints)
            d2 == [d1 EXCEPT !.procs = Append(d1.procs, made.proc),
                             !.inferior = Some(made.inf)]
        IN \E r \in cont(made.inf, made.proc) :
             dbg' = [Continued(d2, r) EXCEPT !.pc =
                       IF /\ r.status.kind = "Stopped"
                          /\ ~get_line_from_addr(d2.debug_data, r.status.rip)
                       THEN "returned" ELSE "prompt"]
  /\ UNCHANGED <<proxy, codec, ll, pm>>

\* debugger.rs:105-135: the continue command with an inferior
DebuggerContinue ==
  /\ dbg.pc = "prompt"
  /\ dbg.inferior # None
  /\ \E r \in cont(dbg.inferior[1], Child(dbg)) : dbg' = Continued(dbg, r)
  /\ UNCHANGED <<proxy, codec, ll, pm>>

\* debugger.rs:146-205: the break command with a target that resolves to addr.
\* The address is pushed on the list and, with an inferior, installed in it.
DebuggerBreak(addr) ==
  /\ dbg.pc = "prompt"
  /\ Len(dbg.breakpoints) < MaxBreaks
  /\ LET d1 == [dbg EXCEPT !.breakpoints = Append(dbg.breakpoints, addr)] IN
       IF dbg.inferior = None THEN dbg' = d1
       ELSE LET one == install_breakpoint(dbg.inferior[1], Child(dbg), addr) IN
            dbg' = [d1 EXCEPT !.inferior = Some(one.inf),
                              !.procs[dbg.inferior[1].child] = one.proc]
  /\ UNCHANGED <<proxy, codec, ll, pm>>

\* debugger.rs:207-213: the quit command, or the end of the input
\* (debugger.rs:230-233): the existing inferior is killed and run returns
DebuggerQuit ==
  /\ dbg.pc = "prompt"
  /\ dbg' = [Killed(dbg) EXCEPT !.pc = "returned"]
  /\ UNCHANGED <<proxy, codec, ll, pm>>

NextDeet ==
    \/ DebuggerRun
    \/ DebuggerContinue
    \/ \E addr \in BreakTargets : DebuggerBreak(addr)
    \/ DebuggerQuit

SpecDeet == InitDeet /\ [][NextDeet]_vars

\* ------------------------------------------------------------ claims
Out(h) == task[h].out
\* the responses task h has written or is writing to its client
Written(h) ==
  {Out(h)[k].rsp : k \in 1..Len(Out(h))}
    \cup {task[h].pending[k].rsp : k \in 1..Len(task[h].pending)}
Ended(h) == task[h].pc = "closed"
Modes(kind) == {i \in Indices : upstream_addresses[i] = kind}

\* exactly one upstream is healthy and every other one is unreachable
FailoverScenario ==
  Cardinality(Modes("up")) = 1 /\ Modes("up") \cup Modes("down") = Indices
\* who a response relayed from a healthy upstream is from
TheLive == {<<u>> : u \in Modes("up")}
AnsweredByTheLive(h) ==
  /\ Ended(h)
  /\ Len(Out(h)) = 1
  /\ Out(h)[1].rsp.from \in TheLive
  /\ Out(h)[1].rsp.status = 200
  /\ Out(h)[1].delivered

\* C1: with one healthy upstream and all others refusing (the scenario's 3
\* upstreams, two refusing, are the case total_upstreams = 3), no 502 is ever
\* written, every response written is the healthy upstream's, and every request
\* is eventually answered with it, in whatever order the indices are tried.
C1_FailoverEndsWithTheLiveResponse ==
  /\ [](FailoverScenario =>
          \A h \in Handlers : \A rsp \in Written(h) :
             rsp.status # 502 /\ rsp.from \in TheLive)
  /\ (FailoverScenario ~> (\A h \in Handlers : AnsweredByTheLive(h)))

\* C1 witness: 3 upstreams, the two refusing ones tried and marked dead, and
\* the request answered by the third
C1_Witness ==
  /\ FailoverScenario
  /\ total_upstreams = 3
  /\ dead_upstreams = Modes("down")
  /\ \A h \in Handlers : AnsweredByTheLive(h)

\* every upstream refuses or times out on connect
AllDown == Modes("down") = Indices
Is502(e) == e.rsp.status = 502 /\ e.rsp.from = <<>>

\* C2: with every upstream refusing or timing out, a handler writes nothing
\* but one 502 for its request, has returned once the 502 is written, forwards
\* nothing, and while some handler has not returned a step is possible.
C2_AllDownGivesOne502 ==
  AllDown =>
    /\ \A h \in Handlers :
         /\ task[h].fwd = <<>>
         /\ Len(Out(h)) <= 1
         /\ \A k \in 1..Len(Out(h)) : Is502(Out(h)[k])
         /\ (Len(Out(h)) = 1 <=> Ended(h))
         /\ \A rsp \in Written(h) : rsp.status = 502
    /\ ((\E h \in Handlers : ~Ended(h)) => ENABLED Next)

\* C2 witness: several unreachable upstreams, every handler ended with its 502
C2_Witness ==
  /\ AllDown
  /\ total_upstreams > 1
  /\ \A h \in Handlers : Ended(h) /\ Len(Out(h)) = 1 /\ Is502(Out(h)[1])

Connecting(h) == task[h].pc = "cu_connect"

\* C3: the index a handler attempts is not in the dead-set as that handler last
\* read it (the set as it is under the read guard when the index is chosen),
\* however the other handlers change the set meanwhile; and the index
\* connect_to_upstream returns is the index it attempted.
C3_NeverPicksADeadUpstream ==
  /\ [](\A h \in Handlers :
          Connecting(h) => task[h].upstream_idx[1] \notin task[h].dead_seen)
  /\ [][\A h \in Handlers :
          /\ (task[h].pc = "cu_select" /\ Connecting(h)') =>
               /\ task'[h].dead_seen = dead_upstreams
               /\ task'[h].upstream_idx[1] \notin dead_upstreams
          /\ (Connecting(h) /\ task'[h].pc = "fw_write") =>
               task'[h].upstream_idx = task[h].upstream_idx]_vars

\* C3 witness: a handler connects while some but not all upstreams are dead
C3_Witness ==
  \E h \in Handlers :
    /\ Connecting(h)
    /\ task[h].dead_seen # {}
    /\ Cardinality(task[h].dead_seen) < total_upstreams

\* the step in which connect_to_upstream returns Err to handler h
ConnectReturnsErr(h) ==
  /\ task[h].pc \in {"cu_select", "cu_mark"}
  /\ \/ task'[h].pc = "send"
     \/ task'[h].retry_count = task[h].retry_count + 1

\* C4: when connect_to_upstream returns Err, every index was tried by this call
\* or is in the dead-set, and every index this call tried is in the dead-set.
C4_FailsOnlyWhenExhausted ==
  [][\A h \in Handlers :
       ConnectReturnsErr(h) =>
         /\ \A i \in Indices :
              i \in task[h].tried_upstreams \/ i \in dead_upstreams'
         /\ task[h].tried_upstreams \subseteq dead_upstreams']_vars

\* C4 witness: connect_to_upstream failed having tried some of the indices, the
\* others having been marked dead before, and the 502 for it is being sent
C4_Witness ==
  \E h \in Handlers :
    /\ total_upstreams > 1
    /\ task[h].pc = "send"
    /\ task[h].pending[1].rsp.cause = "connect"
    /\ task[h].tried_upstreams # {}
    /\ task[h].tried_upstreams # Indices

\* C5: a client that closes before sending a byte gets no response, no upstream
\* is contacted, and the handler returns.
C5_SilentCloseIsCleanEnd ==
  \A h \in Handlers :
    task[h].script = Stream(<<>>, "eof") =>
      /\ Written(h) = {}
      /\ ~task[h].contacted
      /\ task[h].fwd = <<>>
      /\ task[h].pc \in {"pending", "read_headers", "closed"}
      /\ (~Ended(h) => ENABLED HandlerStep(h))

\* C5 witness: the handler of such a client has returned
C5_Witness ==
  \E h \in Handlers : task[h].script = Stream(<<>>, "eof") /\ Ended(h)

Is400(e) == e.rsp.status = 400 /\ e.rsp.from = <<>>

\* C6: headers with Content-Length: 10, 5 body bytes, then close: nothing is
\* forwarded and no upstream contacted, the only response is one 400, the
\* handler has returned only after it, and it can always step until it returns.
C6_ShortBodyGets400 ==
  \A h \in Handlers :
    task[h].script = Stream(ShortPost, "eof") =>
      /\ task[h].fwd = <<>>
      /\ ~task[h].contacted
      /\ Len(Out(h)) <= 1
      /\ \A rsp \in Written(h) : rsp.status = 400 /\ rsp.from = <<>>
      /\ (Ended(h) => Len(Out(h)) = 1 /\ Is400(Out(h)[1]))
      /\ (~Ended(h) => ENABLED HandlerStep(h))

\* C6 witness: the 400 was sent and the handler has returned
C6_Witness ==
  \E h \in Handlers :
    /\ task[h].script = Stream(ShortPost, "eof")
    /\ Ended(h)
    /\ Len(Out(h)) = 1

AllUp == Modes("up") = Indices
BadThenGood ==
  {Stream(<<X>> \o GetReq, "eof"),
   Stream(<<S, ReqE("POST", <<MAX_BODY_SIZE + 1>>)>> \o GetReq, "eof")}

\* C7 as claimed: after a malformed or an oversized request the error status is
\* sent and the well-formed request that follows on the connection is still
\* forwarded and answered (every upstream being healthy).
C7_LaterRequestStillServed ==
  \A h \in Handlers :
    (AllUp /\ task[h].script \in BadThenGood /\ Ended(h)) =>
      /\ Len(Out(h)) = 2
      /\ Out(h)[1].rsp.status \in {400, 413}
      /\ Out(h)[2].rsp.cause = "relay"
      /\ Len(task[h].fwd) = 1

DecodeErrors ==
  {"IncompleteRequest", "MalformedRequest", "InvalidContentLength",
   "ContentLengthMismatch", "RequestBodyTooLarge", "ConnectionError"}

\* C8: a response written for a decode failure has status 400 for a request
\* truncated mid-way, malformed, with a non-numeric Content-Length or with a
\* Content-Length mismatch, and 413 for a declared body above the maximum;
\* no decode failure is answered with any other status.
C8_DecodeErrorStatuses ==
  \A h \in Handlers : \A rsp \in Written(h) :
    rsp.cause \in DecodeErrors =>
      \/ /\ rsp.cause \in {"IncompleteRequest", "MalformedRequest",
                           "InvalidContentLength", "ContentLengthMismatch"}
         /\ rsp.status = 400
      \/ /\ rsp.cause = "RequestBodyTooLarge"
         /\ rsp.status = 413

\* C8 witness: a 400 for a Content-Length mismatch has been written
C8_Witness ==
  \E h \in Handlers : \E k \in 1..Len(Out(h)) :
    Out(h)[k].rsp.cause = "ContentLengthMismatch" /\ Out(h)[k].rsp.status = 400

\* the clients whose only read result is an I/O error, at once or in mid-header
ResetClients == {Stream(<<>>, "reset"), Stream(<<S>>, "reset")}

\* C9 as claimed: after the I/O error on the client read the handler has sent
\* a 503.
C9_IoErrorSends503 ==
  \A h \in Handlers :
    (task[h].script \in ResetClients /\ Ended(h)) =>
      \E k \in 1..Len(Out(h)) : Out(h)[k].rsp.status = 503

\* C9 amended: when reading a request from the client fails with an I/O error
\* the handler sends no response and returns; the proxy never makes a 503.
C9_IoErrorEndsWithoutResponse ==
  \A h \in Handlers :
    /\ \A rsp \in Written(h) : rsp.from = <<>> => rsp.status # 503
    /\ task[h].script \in ResetClients =>
         /\ Written(h) = {}
         /\ ~task[h].contacted
         /\ (~Ended(h) => ENABLED HandlerStep(h))

\* C9 witness: the handler returned after an I/O error in mid-header
C9_Witness ==
  \E h \in Handlers : task[h].script = Stream(<<S>>, "reset") /\ Ended(h)

\* C10 as claimed: a response decoded for a HEAD request, or with status 1xx,
\* 204 or 304, has an empty body.
C10_NoBodyResponsesAreEmpty ==
  \A h \in Handlers :
    (task[h].pc = "send" /\ task[h].pending[1].rsp.cause = "relay"
       /\ NoBodyExpected(task[h].request.m, task[h].response.st)) =>
      task[h].response.body = <<>>

\* the steps of the retry loop: request::read_from_stream has returned Ok and
\* the request it returned is task[h].request
RetryLoop ==
  {"cu_read_lock", "cu_select", "cu_connect", "cu_write_lock", "cu_mark",
   "fw_write", "fw_read_headers", "fw_read_body", "fw_write_lock", "fw_mark"}
Decoded(h) == task[h].pc \in RetryLoop

\* C11 as claimed: a request that request::read_from_stream returns has a body
\* as long as its Content-Length says, and an empty body if it has none,
\* however the client's bytes are split across the reads.
C11_OkRequestMatchesContentLength ==
  \A h \in Handlers :
    Decoded(h) =>
      /\ task[h].request.cl = <<>> => task[h].request.body = <<>>
      /\ task[h].request.cl # <<>> =>
           Len(task[h].request.body) = task[h].request.cl[1]

\* the handler has consumed all its client sent and awaits more
Drained(h) ==
  /\ task[h].pc = "read_headers"
  /\ task[h].client.bytes = <<>>
  /\ task[h].buf = <<>>

\* C12 as claimed: two well-formed requests sent one after the other on one
\* connection, every upstream healthy: once the handler has consumed them, each
\* was forwarded as a request of its own and two responses were relayed.
C12_PipelinedRequestsEachServed ==
  \A h \in Handlers :
    (AllUp /\ task[h].script = Stream(GetReq \o GetReq, "idle") /\ Drained(h)) =>
      /\ Len(task[h].fwd) = 2
      /\ \A k \in 1..Len(task[h].fwd) : task[h].fwd[k].req.body = <<>>
      /\ Len(Out(h)) = 2
      /\ \A k \in 1..Len(Out(h)) : Out(h)[k].rsp.cause = "relay"

\* the codec has decoded a request and written it again, unchanged in between
RoundTrip == codec.pc = "done" /\ ~codec.extended
Range(seq) == {seq[k] : k \in 1..Len(seq)}
\* the header lines of a request text as name and value, names in lower case
LowerLines(lines) ==
  [k \in 1..Len(lines) |-> [name |-> Lower(lines[k].name), value |-> lines[k].value]]
ValuesOf(lines, name) ==
  LET Named(x) == x.name = name
  IN [k \in 1..Len(SelectSeq(lines, Named)) |-> SelectSeq(lines, Named)[k].value]
\* a request text in the form write_to_stream writes: version HTTP/1.1, names
\* in lower case, ": " after each name, lines of the same name adjacent
Canonical(in) ==
  /\ in.version = "HTTP/1.1"
  /\ \A k \in 1..Len(in.lines) :
       /\ in.lines[k].name \in {"host", "content-length", "x-forwarded-for"}
       /\ in.lines[k].sep = ColonSp
  /\ \A i, j, k \in 1..Len(in.lines) :
       (i < j /\ j < k /\ Lower(in.lines[i].name) = Lower(in.lines[k].name)) =>
          Lower(in.lines[j].name) = Lower(in.lines[i].name)

LinesNamed(lines, name) == {k \in 1..Len(lines) : lines[k].name = name}

\* C14 as claimed: extend_header_value(request, name, v) appends ", " and v to
\* the header's value if the header exists and creates the header with value v
\* otherwise; every other header line and the body stay as they were.
C14_ExtendAppendsAndKeepsTheRest ==
  codec.pc = "extended" =>
    LET name == "x-forwarded-for"
        old == HmIter(codec.before[1].headers)
        now == HmIter(codec.request[1].headers)
        at == LinesNamed(old, name)
    IN /\ codec.request[1].body = codec.before[1].body
       /\ IF at = {}
          THEN now = Append(old, [name |-> name, value |-> ClientIp])
          ELSE /\ Len(now) = Len(old)
               /\ \A k \in 1..Len(old) :
                    IF \A j \in at : k <= j
                    THEN /\ now[k].name = name
                         /\ now[k].value = old[k].value \o <<", ">> \o ClientIp
                    ELSE now[k] = old[k]

\* a client whose header block is longer than the header buffer
OversizedHeaders == Stream(Rep(S, MAX_HEADERS_SIZE + 1), "eof")

\* C15 as claimed: a header block above the maximum size is rejected as too
\* large, not as truncated or malformed input, and nothing of it is forwarded.
C15_OversizedHeadersAreTooLarge ==
  \A h \in Handlers :
    task[h].script = OversizedHeaders =>
      /\ task[h].fwd = <<>>
      /\ \A rsp \in Written(h) :
           /\ rsp.cause \notin {"IncompleteRequest", "MalformedRequest"}
           /\ rsp.status = 413

\* C16: an index in the dead-set stays in it: no step of any handler, in any
\* interleaving, removes an index; and only configured indices are inserted.
C16_DeadIsOneWay ==
  /\ [](dead_upstreams \subseteq Indices)
  /\ [][dead_upstreams \subseteq dead_upstreams']_vars

\* C16 witness: two indices were inserted one after the other and a handler has
\* ended since
C16_Witness ==
  /\ Cardinality(dead_upstreams) >= 2
  /\ \E h \in Handlers : Ended(h)

\* C17 as claimed: at every suspension point the wait is bounded: a handler
\* that has not returned can always take its next step, whatever its peer does.
C17_EveryWaitEnds ==
  \A h \in Handlers :
    (task[h].pc \notin {"none", "closed"} /\ readers = {} /\ writer = {}) =>
      ENABLED HandlerStep(h)

\* the scenario of 3 upstreams: the first two unreachable, the third healthy
TwoDownThenUp ==
  /\ total_upstreams = 3
  /\ upstream_addresses[0] = "down"
  /\ upstream_addresses[1] = "down"
  /\ upstream_addresses[2] = "up"

\* every client that connected had its request answered by the healthy upstream
ClientsAnswered ==
  \A h \in Handlers : task[h].pc = "none" \/ AnsweredByTheLive(h)

\* C18 as claimed: once the client's request is answered both unreachable
\* indices are in the dead-set.
C18_BothUnreachableEndDead ==
  (TwoDownThenUp /\ ClientsAnswered) => {0, 1} \subseteq dead_upstreams

HoldsUpstream(h) ==
  task[h].pc \in {"fw_write", "fw_read_headers", "fw_read_body"}

\* C18 amended: in that scenario an index enters the dead-set only in the step
\* of a handler whose connect to it failed, so only unreachable indices are
\* ever in it; a handler that reached the third upstream has marked every index
\* it tried before; an unreachable index no handler selected is not marked.
C18_OnlyTriedUnreachableAreDead ==
  /\ [](TwoDownThenUp =>
          /\ dead_upstreams \subseteq {0, 1}
          /\ \A h \in Handlers :
               HoldsUpstream(h) =>
                 /\ task[h].upstream_idx = <<2>>
                 /\ task[h].tried_upstreams \ {2} \subseteq dead_upstreams)
  /\ [][TwoDownThenUp =>
          \A i \in dead_upstreams' \ dead_upstreams :
            \E h \in Handlers :
              /\ task[h].pc = "cu_mark"
              /\ task[h].upstream_idx = <<i>>
              /\ i \in task[h].tried_upstreams]_vars

\* C18 witness: the client's request was answered by the third upstream and no
\* index was marked dead
C18_Witness ==
  /\ TwoDownThenUp
  /\ ClientsAnswered
  /\ dead_upstreams = {}

\* C19 as claimed: a failed write of a response to the client ends the
\* handler: it is the last thing the handler does on the connection.
C19_FailedWriteEndsHandler ==
  \A h \in Handlers :
    (\E k \in 1..Len(Out(h)) : ~Out(h)[k].delivered) => Ended(h)

\* the steps at which a handler waits for a peer, or has not started or ended
IoWaits ==
  {"none", "pending", "read_headers", "read_body", "cu_connect", "fw_write",
   "fw_read_headers", "fw_read_body", "send", "closed"}
LockWaits == {"cu_read_lock", "cu_write_lock", "fw_write_lock"}
HoldsLock(h) == h \in readers \/ h \in writer
\* the client of h sends nothing more and keeps the connection open
Stalled(h) ==
  /\ task[h].pc = "read_headers"
  /\ task[h].client.bytes = <<>>
  /\ task[h].client.end = "idle"

\* C20: a handler holds no guard of the dead-set lock while it waits for a
\* peer, before it starts or after it ends; an accepted connection's handler
\* can always start; a handler waiting for the lock waits only for a handler
\* that holds it and can step; and every handler whose client is not stalled
\* eventually ends, whatever the stalled one does.
C20_HandlersAreIsolated ==
  /\ [](\A h \in Handlers :
          /\ task[h].pc \in IoWaits => ~HoldsLock(h)
          /\ task[h].pc = "pending" => ENABLED Accept(h)
          /\ task[h].pc \in LockWaits =>
               \/ ENABLED HandlerStep(h)
               \/ \E g \in Handlers \ {h} : HoldsLock(g) /\ ENABLED HandlerStep(g))
  /\ <>(\A h \in Handlers : Ended(h) \/ Stalled(h))

\* C20 witness: the first handler is stalled on its client and every other
\* handler has answered its client and ended, some upstream having failed
C20_Witness ==
  /\ Stalled(1)
  /\ dead_upstreams # {}
  /\ \A h \in Handlers \ {1} : Ended(h) /\ Len(Out(h)) = 1

\* ---- proj-2 balancebeam: the retry loop
Forwarding == {"fw_write", "fw_read_headers", "fw_read_body"}
\* handler h takes a step
Steps(h) == task'[h] # task[h]
\* the write to the upstream, or the read of its response, fails or times out
FwFails(h) == task[h].pc \in Forwarding /\ task'[h].pc = "fw_write_lock"
\* the index 0 accepts every connect and then behaves in any way
OddFirst == 0 \in Indices /\ upstream_addresses[0] = "odd"

\* C24: from the connect's success to the marking the index is the one
\* connect_to_upstream returned; a failed or timed-out write or read drops the
\* connection and leaves the count as it is; the marking inserts that index and
\* then either the loop goes on with the count one higher and a new call of
\* connect_to_upstream, or the budget is spent and the 502 is sent; when the
\* handler next selects, every index it attempted for the request is in the
\* dead-set; and a connection is only ever obtained from a connect.
C24_ForwardFailureMarksAndRetries ==
  /\ [](\A h \in Handlers :
          task[h].pc \in {"cu_read_lock", "cu_select"} =>
            task[h].attempted \subseteq dead_upstreams)
  /\ [][\A h \in Handlers :
          /\ (task[h].pc \in {"cu_connect", "fw_write_lock"} \cup Forwarding
                /\ task'[h].pc \in {"fw_write_lock", "fw_mark"} \cup Forwarding) =>
               /\ task'[h].upstream_idx = task[h].upstream_idx
               /\ task'[h].retry_count = task[h].retry_count
          /\ FwFails(h) =>
               /\ task'[h].upstream_conn = <<>>
               /\ dead_upstreams' = dead_upstreams
          /\ (task[h].pc = "fw_mark" /\ Steps(h)) =>
               /\ task[h].upstream_idx[1] \in dead_upstreams'
               /\ task'[h].upstream_conn = <<>>
               /\ IF task[h].retry_count < total_upstreams
                  THEN /\ task'[h].pc = "cu_read_lock"
                       /\ task'[h].retry_count = task[h].retry_count + 1
                       /\ task'[h].tried_upstreams = {}
                  ELSE /\ task'[h].pc = "send"
                       /\ task'[h].pending[1].rsp.status = 502
          /\ (task[h].upstream_conn = <<>> /\ task'[h].upstream_conn # <<>>) =>
               task[h].pc = "cu_connect"]_vars

\* C24 witness: the upstream at index 0 accepted the connect, the forward to it
\* failed, and the handler selects again, in the second turn of the loop
C24_Witness ==
  \E h \in Handlers :
    /\ OddFirst
    /\ task[h].pc = "cu_select"
    /\ task[h].retry_count = 2
    /\ task[h].tried_upstreams = {}
    /\ 0 \in task[h].attempted
    /\ 0 \in dead_upstreams

\* the handling of the request of h ends
RequestEnds(h) == Decoded(h) /\ ~Decoded(h)'

\* C25: the loop's count never exceeds the number of upstreams, one call of
\* connect_to_upstream attempts no more indices than there are and each
\* attempt is to an index the call has not tried; the handling of a request
\* ends only by sending the upstream's response or the 502; and it does end.
C25_RequestHandlingTerminates ==
  /\ [](\A h \in Handlers :
          /\ task[h].retry_count <= total_upstreams
          /\ task[h].tried_upstreams \subseteq Indices
          /\ Cardinality(task[h].tried_upstreams) <= total_upstreams)
  /\ [][\A h \in Handlers :
          /\ (task[h].pc = "cu_select" /\ Connecting(h)') =>
               /\ task'[h].upstream_idx[1] \notin task[h].tried_upstreams
               /\ task'[h].tried_upstreams =
                    task[h].tried_upstreams \cup {task'[h].upstream_idx[1]}
          /\ RequestEnds(h) =>
               /\ task'[h].pc = "send"
               /\ \/ /\ task'[h].pending[1].rsp.cause = "relay"
                     /\ task'[h].pending[1].rsp.from = task[h].upstream_idx
                  \/ /\ task'[h].pending[1].rsp.status = 502
                     /\ task'[h].pending[1].rsp.from = <<>>
                     /\ task'[h].pending[1].next = "closed"]_vars
  /\ \A h \in Handlers : Decoded(h) ~> (task[h].pc = "send")

\* C25 witness: with 3 upstreams the loop took its third turn and the 502 is
\* being sent
C25_Witness ==
  \E h \in Handlers :
    /\ total_upstreams = 3
    /\ task[h].pc = "send"
    /\ task[h].pending[1].rsp.status = 502
    /\ task[h].retry_count = 3

Failed(kind) == [res |-> kind, conn |-> <<>>]
TimedOutRead(h) ==
  /\ task[h].pc \in {"fw_read_headers", "fw_read_body"}
  /\ task[h].upstream_conn[1].bytes = <<>>
  /\ task[h].upstream_conn[1].end = "idle"

\* C26: the handler's state after a connect timeout is its state after a
\* connect error, with the dead-set untouched until the marking that follows
\* both; its state after a timeout of the response read is its state after an
\* I/O error of that read; and the markings insert the index and go on with
\* the selection of the same call (connect) or with the next turn of the loop,
\* the count one higher (read).
C26_TimeoutIsLikeFailure ==
  /\ [](\A h \in Handlers :
          /\ Connecting(h) =>
               /\ OnConnectResult(task[h], Failed("timeout"))
                    = OnConnectResult(task[h], Failed("error"))
               /\ OnConnectResult(task[h], Failed("timeout")).pc = "cu_write_lock"
          /\ task[h].pc \in {"fw_read_headers", "fw_read_body"} =>
               /\ OnResponseResult(task[h], ErrRsp("Timeout"))
                    = OnResponseResult(task[h], ErrRsp("ConnectionError"))
               /\ OnResponseResult(task[h], ErrRsp("Timeout")).pc = "fw_write_lock")
  /\ [][\A h \in Handlers :
          /\ RspTimeout(h) =>
               /\ task'[h] = OnResponseResult(task[h], ErrRsp("ConnectionError"))
               /\ dead_upstreams' = dead_upstreams
          /\ (Connecting(h) /\ task'[h].pc = "cu_write_lock") =>
               /\ task'[h] = OnConnectResult(task[h], Failed("error"))
               /\ dead_upstreams' = dead_upstreams
          /\ (task[h].pc = "cu_mark" /\ Steps(h)) =>
               /\ task[h].upstream_idx[1] \in dead_upstreams'
               /\ Cardinality(task[h].tried_upstreams) < total_upstreams =>
                    /\ task'[h].pc = "cu_read_lock"
                    /\ task'[h].tried_upstreams = task[h].tried_upstreams
                    /\ task'[h].retry_count = task[h].retry_count
          /\ (task[h].pc = "fw_mark" /\ task'[h].pc = "cu_read_lock") =>
               /\ task[h].upstream_idx[1] \in dead_upstreams'
               /\ task'[h].retry_count = task[h].retry_count + 1]_vars

\* C26 witness: an upstream has sent a part of its response and nothing more,
\* and the read of the body is about to time out
C26_Witness ==
  \E h \in Handlers :
    /\ task[h].pc = "fw_read_body"
    /\ TimedOutRead(h)
    /\ task[h].response.body # <<>>
    /\ ENABLED RspTimeout(h)

\* C27: while a handler holds the write guard no other handler holds a guard;
\* the dead-set changes only in a step of a handler that holds the write
\* guard, and that handler inserts its own index; a handler computes the
\* available indices only while it holds a read guard; guards are held only at
\* those places.
C27_SharedReadExclusiveWrite ==
  /\ [](/\ Cardinality(writer) <= 1
        /\ writer # {} => readers = {}
        /\ \A h \in Handlers :
             /\ task[h].pc = "cu_select" <=> h \in readers
             /\ task[h].pc \in {"cu_mark", "fw_mark"} <=> h \in writer)
  /\ [][dead_upstreams' # dead_upstreams =>
          \E h \in writer :
            /\ task[h].pc \in {"cu_mark", "fw_mark"}
            /\ Steps(h)
            /\ dead_upstreams' = dead_upstreams \cup {task[h].upstream_idx[1]}]_vars

\* C27 witness: one handler holds the write guard while another awaits a guard
C27_Witness ==
  \E h, g \in Handlers :
    /\ h # g
    /\ writer = {h}
    /\ task[h].pc = "fw_mark"
    /\ task[g].pc \in LockWaits

\* C28 as claimed: when the request encoder returns Ok every byte of the
\* serialized request was written, once and in order, however many bytes the
\* stream accepted in each write.
C28_EncoderWritesEveryByte ==
  codec.pc = "done" => codec.written = Concat(WriteBuffers(codec.request[1]))

\* C29: a handler holds an upstream connection only from the connect's success
\* to the end of the forward of that turn of the loop (to the sent response if
\* the forward succeeded): none while it awaits a client request, a lock or a
\* connect, none once it has ended; a connection is obtained only by a
\* connect, and while held it is the same connection, read further.
C29_OneConnectionPerIteration ==
  /\ [](\A h \in Handlers :
          /\ Len(task[h].upstream_conn) <= 1
          /\ task[h].upstream_conn # <<>> =>
               \/ task[h].pc \in Forwarding
               \/ /\ task[h].pc = "send"
                  /\ task[h].pending[1].rsp.cause = "relay")
  /\ [][\A h \in Handlers :
          /\ (task[h].upstream_conn = <<>> /\ task'[h].upstream_conn # <<>>) =>
               /\ Connecting(h)
               /\ task'[h].pc = "fw_write"
          /\ (task[h].upstream_conn # <<>> /\ task'[h].upstream_conn # <<>>) =>
               \E k \in 0..Len(task[h].upstream_conn[1].bytes) :
                  task'[h].upstream_conn[1] =
                    [task[h].upstream_conn[1] EXCEPT !.bytes = Drop(@, k)]]_vars

\* C29 witness: the forward to the first upstream failed after it was written,
\* and in the second turn of the loop the handler holds a new connection
C29_Witness ==
  \E h \in Handlers :
    /\ task[h].pc = "fw_write"
    /\ task[h].retry_count = 2
    /\ Len(task[h].fwd) = 1
    /\ task[h].upstream_conn # <<>>
    /\ task[h].upstream_idx # <<task[h].fwd[1].idx>>

\* C30: for one request a handler attempts a connect to an index at most once,
\* over all turns of the loop and all calls of connect_to_upstream, and the
\* number of the loop's turns and the number of indices attempted are at most
\* the number of upstreams.
C30_OneAttemptPerIndex ==
  \A h \in Handlers :
    /\ ~task[h].repeated
    /\ task[h].attempted \subseteq Indices
    /\ Cardinality(task[h].attempted) <= total_upstreams
    /\ task[h].tried_upstreams \subseteq task[h].attempted

\* C30 witness: in its second call of connect_to_upstream for a request the
\* handler attempts an index, two others having been attempted before
C30_Witness ==
  \E h \in Handlers :
    /\ Connecting(h)
    /\ task[h].retry_count = 2
    /\ Cardinality(task[h].tried_upstreams) = 1
    /\ Cardinality(task[h].attempted) = 3

\* ---- week3 linked_list
Has(s) == ll.pc = "run" /\ ll.lists[s] # None
TheList(s) == ll.lists[s][1]
ToVec(s) == to_vec(ll.heap, TheList(s))
Reverse(seq) == [k \in 1..Len(seq) |-> seq[Len(seq) + 1 - k]]
\* what Option<&T> or Option<T> holds for the first element of a sequence
First(seq) == IF seq = <<>> THEN None ELSE Some(seq[1])

\* C21: get_size is the number of elements held, is_empty holds exactly when it
\* is 0, peek is the first element (None if none); push_front puts its value
\* first; pop_front returns the first element and removes it, and on an empty
\* list returns None and changes nothing; clear empties the list; peek returns
\* what pop_front would and changes no list.
C21_LifoWithExactSize ==
  /\ [](\A s \in Slots : Has(s) =>
          /\ get_size(TheList(s)) = Len(ToVec(s))
          /\ (is_empty(TheList(s)) <=> ToVec(s) = <<>>)
          /\ peek(ll.heap, TheList(s)) = First(ToVec(s)))
  /\ [][\A s \in Slots :
          /\ \A value \in Values :
               LlPushFront(s, value) => ToVec(s)' = <<value>> \o ToVec(s)
          /\ LlPopFront(s) =>
               /\ ll'.ret = First(ToVec(s))
               /\ IF ToVec(s) = <<>>
                  THEN ll'.lists = ll.lists /\ ll'.heap = ll.heap
                  ELSE ToVec(s)' = Tail(ToVec(s))
          /\ LlClear(s) => ToVec(s)' = <<>> /\ get_size(TheList(s))' = 0
          /\ LlPeek(s) =>
               /\ ll'.ret = pop_front(ll.heap, TheList(s)).ret
               /\ ll'.lists = ll.lists /\ ll'.heap = ll.heap]_vars

\* C21 witness: after push_front(1), push_front(2), a pop_front returned 2 and
\* left the 1
C21_Witness ==
  /\ Has("list1")
  /\ ll.built["list1"].how = "new" /\ ll.built["list1"].touched
  /\ ll.ret = Some(2)
  /\ ToVec("list1") = <<1>>
  /\ get_size(TheList("list1")) = 1

\* list1 was built by new and push_front of vec's elements in reverse order
PushedInReverse(vec) ==
  /\ Has("list1")
  /\ ll.built["list1"] = Built("new", Reverse(vec))
\* list2 is from_vec(vec), as from_vec returned it
IsFromVec(vec) ==
  /\ Has("list2")
  /\ ll.built["list2"] = Built("from_vec", vec)

\* C22: from_vec(v).to_vec() is v and from_vec(v).get_size() is v.len();
\* from_vec(v) == the list built by push_front of v's elements in reverse
\* order; and == holds exactly when the two lists hold the same elements in
\* the same order (so have the same length).
C22_FromVecToVecAndEq ==
  /\ [](\A vec \in SeqsUpTo(MaxListLen) :
          /\ IsFromVec(vec) =>
               /\ ToVec("list2") = vec
               /\ get_size(TheList("list2")) = Len(vec)
          /\ (IsFromVec(vec) /\ PushedInReverse(vec)) =>
               /\ eq(ll.heap, TheList("list1"), TheList("list2"))
               /\ eq(ll.heap, TheList("list2"), TheList("list1")))
  /\ []((Has("list1") /\ Has("list2")) =>
          (eq(ll.heap, TheList("list1"), TheList("list2"))
             <=> ToVec("list1") = ToVec("list2")))

\* C22 witness: list1 built by push_front(2), push_front(1) and list2 made by
\* from_vec([1, 2])
C22_Witness ==
  /\ PushedInReverse(<<1, 2>>)
  /\ IsFromVec(<<1, 2>>)

\* the boxes of a chain
RECURSIVE NodesFrom(_, _)
NodesFrom(heap, cur) ==
  IF cur = None \/ heap[cur[1]] = None THEN {}
  ELSE {cur[1]} \cup NodesFrom(heap, Deref(heap, cur[1]).next)
NodesOf(s) == IF Has(s) THEN NodesFrom(ll.heap, TheList(s).head) ELSE {}
OtherSlot(s) == CHOOSE t \in Slots : t # s

\* a method that changes list s takes a step
Mutates(s) ==
  \/ \E value \in Values : LlPushFront(s, value)
  \/ LlPopFront(s)
  \/ \E value \in Values : LlPeekMut(s, value)
  \/ LlClear(s)

\* C23: clone returns a list == the original, with the original's elements, and
\* leaves the original as it was; the two lists share no box; and push_front,
\* pop_front, peek_mut and clear on either list leave the elements and the size
\* of the other unchanged.
C23_CloneIsEqualAndIndependent ==
  /\ [](NodesOf("list1") \cap NodesOf("list2") = {})
  /\ [][LlClone =>
          /\ eq(ll.heap, TheList("list1"), TheList("list2"))'
          /\ ToVec("list2")' = ToVec("list1")
          /\ get_size(TheList("list2"))' = get_size(TheList("list1"))
          /\ ToVec("list1")' = ToVec("list1")
          /\ TheList("list1")' = TheList("list1")]_vars
  /\ [][\A s \in Slots :
          (Mutates(s) /\ Has(OtherSlot(s))) =>
             /\ ToVec(OtherSlot(s))' = ToVec(OtherSlot(s))
             /\ TheList(OtherSlot(s))' = TheList(OtherSlot(s))]_vars

\* C23 witness: list2 is a clone of a list of two elements whose first element
\* was overwritten through peek_mut, and list1 still holds its own
C23_Witness ==
  /\ Has("list1") /\ Has("list2")
  /\ ll.built["list2"].how = "clone" /\ ll.built["list2"].touched
  /\ ll.built["list1"] = Built("new", <<1, 2>>)
  /\ ToVec("list1") = <<2, 1>>
  /\ ToVec("list2") = <<1, 1>>
\* -------------------------------------------- balancebeam: claims C31-C35
\* the handler has a 502 of its own to write, or has written one
Gives502(h) ==
  \/ task[h].pc = "send" /\ Is502(task[h].pending[1])
  \/ \E k \in 1..Len(Out(h)) : Is502(Out(h)[k])

\* C31: a 502 is handed to send_response, and written, only in a state where
\* every upstream index is in the dead-set; so while some index is not in the
\* dead-set a handler in the retry loop goes on selecting and does not give
\* up, whatever the other handlers do meanwhile.
C31_GivesUpOnlyWhenAllDead ==
  /\ [](\A h \in Handlers : Gives502(h) => dead_upstreams = Indices)
  /\ [][\A h \in Handlers :
          (Decoded(h) /\ Steps(h) /\ dead_upstreams' # Indices) =>
             /\ task'[h].pc # "closed"
             /\ (task'[h].pc = "send" =>
                   task'[h].pending[1].rsp.cause = "relay")]_vars

\* C31 witness: of several upstreams the first accepted a connection and the
\* handler has written its 502 after the others marked or found it dead
C31_Witness ==
  \E h \in Handlers :
    /\ total_upstreams = MaxUpstreams
    /\ upstream_addresses[0] = "flaky"
    /\ Ended(h) /\ Len(Out(h)) = 1 /\ Is502(Out(h)[1])
    /\ \E g \in Handlers \ {h} : task[g].fwd # <<>>

\* the handler awaits bytes of the next request of its client
Reading(h) == task[h].pc \in {"read_headers", "read_body"}
\* the clients that send one well-formed request and close
OneRequestClients ==
  {Stream(GetReq, "eof"), Stream(HeadReq, "eof"), Stream(PostReq, "eof")}

\* C32: a request read from the client gets one response write and no more.  A
\* read that ends in a decode error goes to the send of one 4xx; a decoded
\* request enters the retry loop, which is left only for the send of one
\* relayed response or of one 502; send_response writes the one response it
\* was given and the handler then reads the next request or returns, so no
\* second response follows for the same request.  A 502 is the last thing a
\* handler writes.  A client that sends one request is written one response.
C32_OneResponsePerRequest ==
  /\ [](\A h \in Handlers :
          /\ (task[h].pc = "send") =>
               /\ Len(task[h].pending) = 1
               /\ LET rsp == task[h].pending[1].rsp IN
                    \/ rsp.cause \in DecodeErrors /\ rsp.status \in 400..499
                    \/ rsp.cause = "relay" /\ rsp.from # <<>>
                    \/ Is502(task[h].pending[1])
          /\ \A k \in 1..Len(Out(h)) :
               Is502(Out(h)[k]) => k = Len(Out(h)) /\ Ended(h)
          /\ (task[h].script \in OneRequestClients) =>
               /\ Len(Out(h)) <= 1
               /\ (Ended(h) => Len(Out(h)) = 1))
  /\ [][\A h \in Handlers :
          /\ (task[h].pc = "send" /\ Steps(h)) =>
               /\ Len(Out(h)') = Len(Out(h)) + 1
               /\ Out(h)'[Len(Out(h)')].rsp = task[h].pending[1].rsp
               /\ task'[h].pc \in {"read_headers", "closed"}
          /\ (task[h].pc # "send") => Out(h)' = Out(h)
          /\ (Reading(h) /\ Steps(h)) =>
               \/ Reading(h)' \/ Decoded(h)' \/ task'[h].pc = "closed"
               \/ /\ task'[h].pc = "send"
                  /\ task'[h].pending[1].rsp.cause \in DecodeErrors
          /\ (Decoded(h) /\ Steps(h)) =>
               \/ Decoded(h)'
               \/ /\ task'[h].pc = "send"
                  /\ \/ task'[h].pending[1].rsp.cause = "relay"
                     \/ Is502(task'[h].pending[1])]_vars

\* C32 witness: on one connection a decode error was answered with a 4xx and
\* a later request with a relayed response, each with one write
C32_Witness ==
  \E h \in Handlers :
    /\ Len(Out(h)) = 2
    /\ Out(h)[1].rsp.status = 413
    /\ Out(h)[2].rsp.cause = "relay"

\* C33 as claimed: the bytes written to each upstream tried for one request are
\* the same: what the second upstream was written is what the first was.
C33_SameBytesToEachUpstream ==
  (codec.pc = "done" /\ codec.sent # <<>>) => codec.written = codec.sent[1]

\* The upstream accepts the request and sends one well-formed response to a
\* request with this method and nothing else: a header block, and the body its
\* Content-Length declares, or a body ended by the close if it declares none,
\* or no body where the response has none.
WellFormedConn(c, method) ==
  /\ ~c.wfail
  /\ Len(c.sent) >= 2 /\ Parse(c.sent) = [res |-> "complete", len |-> 2]
  /\ LET e == c.sent[2]
         body == Drop(c.sent, 2)
     IN /\ ~e.clbad
        /\ \A k \in 1..Len(body) : body[k] = B
        /\ IF NoBodyExpected(method, e.st) THEN body = <<>>
           ELSE IF e.cl = <<>> THEN c.end = "eof"
           ELSE Len(body) = e.cl[1]
\* the response that relays all of what the upstream sent on c, from index i
Relayed(c, i) == Response(c.sent[2].st, "relay", <<i>>, Drop(c.sent, 2))

\* C34: the dead-set changes only by the insert of the index of a handler that
\* holds the write lock to mark; a handler comes to mark only from a connect
\* that failed or timed out or from a forward whose request write or response
\* read failed or timed out; on a connection that sends a well-formed response
\* the forward does not fail, whatever the status, and the response is handed
\* to send_response with the status and body the upstream sent and the
\* dead-set as it was; and send_response, delivered or not, leaves the
\* dead-set alone and goes on to the next read or the return.
C34_DeadOnlyAfterUpstreamFailure ==
  /\ [][dead_upstreams' # dead_upstreams =>
          \E h \in Handlers :
            /\ task[h].pc \in {"cu_mark", "fw_mark"}
            /\ dead_upstreams' = dead_upstreams \cup {task[h].upstream_idx[1]}]_vars
  /\ [][\A h \in Handlers :
          /\ (task'[h].pc = "cu_mark" /\ Steps(h)) => task[h].pc = "cu_write_lock"
          /\ (task'[h].pc = "fw_mark" /\ Steps(h)) => task[h].pc = "fw_write_lock"
          /\ (task'[h].pc = "cu_write_lock" /\ Steps(h)) => Connecting(h)
          /\ (task'[h].pc = "fw_write_lock" /\ Steps(h)) => FwFails(h)
          /\ FwFails(h) =>
               ~WellFormedConn(task[h].upstream_conn[1], task[h].request.m)
          /\ (task[h].pc \in Forwarding /\ task'[h].pc = "send") =>
               /\ dead_upstreams' = dead_upstreams
               /\ task'[h].pending[1].rsp.status = task[h].upstream_conn[1].sent[2].st
               /\ WellFormedConn(task[h].upstream_conn[1], task[h].request.m) =>
                    task'[h].pending[1].rsp =
                      Relayed(task[h].upstream_conn[1], task[h].upstream_idx[1])
          /\ (task[h].pc = "send" /\ Steps(h)) =>
               /\ dead_upstreams' = dead_upstreams
               /\ task'[h].pc \in {"read_headers", "closed"}]_vars

\* C34 witness: a 500 of the upstream at index 0 was relayed, the write of it
\* to the client failed, and no upstream is dead
C34_Witness ==
  \E h \in Handlers : \E k \in 1..Len(Out(h)) :
    /\ Out(h)[k].rsp = Response(500, "relay", <<0>>, <<>>)
    /\ ~Out(h)[k].delivered
    /\ dead_upstreams = {}

\* every index is dead and handler h is in connect_to_upstream for a request,
\* before any index was selected for it
AllDeadFor(h) ==
  /\ dead_upstreams = Indices
  /\ task[h].pc \in {"cu_read_lock", "cu_select"}

\* C35: with every index in the dead-set no handler begins a connect; a
\* handler in connect_to_upstream for a request gets Err each time without
\* selecting, until it hands a 502 to send_response; after the 502 it returns,
\* which closes the connection; and it does get that far: the request is
\* eventually answered with the 502 and the handler has returned.
C35_AllDeadAnswers502 ==
  /\ [][\A h \in Handlers :
          /\ (~Connecting(h) /\ Connecting(h)') => dead_upstreams # Indices
          /\ (AllDeadFor(h) /\ Steps(h)) =>
               \/ AllDeadFor(h)'
               \/ /\ task'[h].pc = "send"
                  /\ Is502(task'[h].pending[1])
                  /\ task'[h].pending[1].next = "closed"
          /\ (task[h].pc = "send" /\ Is502(task[h].pending[1]) /\ Steps(h)) =>
               /\ Ended(h)'
               /\ Is502(Out(h)'[Len(Out(h)')])]_vars
  /\ \A h \in Handlers : AllDeadFor(h) ~> (Ended(h) /\ Gives502(h))

\* C35 witness: of several upstreams all were marked dead by the other
\* handler, and this one has answered its request with a 502 and returned
\* without ever beginning a connect
C35_Witness ==
  \E h \in Handlers :
    /\ total_upstreams = MaxUpstreams
    /\ Ended(h) /\ Gives502(h)
    /\ ~task[h].contacted
    /\ \E g \in Handlers \ {h} : task[g].contacted

\* ------------------------------------------- week6 parallel_map: claims
\* the indices of the input vector
InputIndices == 0..(Len(pm.input_vec) - 1)
\* parallel_map has returned
Returned == pm.pc = "done"

\* C36: with at least one thread, the vector parallel_map returns has the
\* input's length and holds f(input_vec[i]) at every index i, whichever worker
\* took which task and in whatever order the results arrived; f is applied to
\* every element once, and never more than once while the call runs.
C36_OrderPreserving ==
  /\ \A i \in InputIndices : pm.calls[i] <= 1
  /\ Len(pm.output_vec) = Len(pm.input_vec)
  /\ (Returned /\ pm.num_threads >= 1) =>
       /\ \A i \in InputIndices :
            /\ pm.output_vec[i + 1] = f(pm.input_vec[i + 1])
            /\ pm.calls[i] = 1
       /\ Len(pm.arrived) = Len(pm.input_vec)

\* C36 witness: a vector of different elements was mapped by two workers that
\* both took tasks, and the results arrived in another order than the input's
C36_Witness ==
  /\ Returned
  /\ pm.input_vec = <<2, 3, 2>>
  /\ pm.num_threads = 2
  /\ pm.taker = [i \in InputIndices |-> IF i = 0 THEN 1 ELSE 2]
  /\ pm.arrived = <<1, 2, 0>>
  /\ pm.output_vec = <<4, 9, 4>>

\* every thread spawned so far has ended
WorkersExited == \A w \in 1..pm.handles : pm.worker[w].pc = "exited"

\* C37: parallel_map returns, for every number of threads from 0 and every
\* input length from 0: while it has not returned some thread can take a step;
\* once the task sender is dropped every worker comes to see the closed
\* channel and ends; once the results are collected and every worker's sender
\* is dropped the collection loop ends; and at the return every worker has
\* ended and was joined, no result is left in its channel, and no task is left
\* if there was a worker to take it.
C37_AlwaysTerminates ==
  /\ <>Returned
  /\ [](~Returned => ENABLED NextMap)
  /\ (~pm.task_sender) ~> WorkersExited
  /\ (pm.pc = "collect" /\ pm.result_senders = {} /\ pm.result_chan = <<>>)
       ~> (pm.pc \in {"join", "done"})
  /\ [](Returned =>
          /\ pm.handles = pm.num_threads /\ pm.joined = pm.num_threads
          /\ WorkersExited
          /\ pm.result_chan = <<>>
          /\ (pm.num_threads >= 1 => pm.task_chan = <<>>)
          /\ pm.result_senders = {} /\ ~pm.task_sender)

\* C37 witness: a call with no thread and a non-empty input has returned
C37_Witness ==
  /\ Returned
  /\ pm.num_threads = 0
  /\ Len(pm.input_vec) = MaxInputLen

\* ------------------------------------------- proj-1 deet: claims
\* the processes of the debugger that have not ended
Alive == {pid \in DOMAIN dbg.procs : dbg.procs[pid].state = "stopped"}

\* C38 as claimed: whenever the inferior is resumed, every address of its
\* breakpoint map holds 0xcc in its memory.
C38_BreakpointsArmedWhileRunning ==
  dbg.resumed # None =>
    \A addr \in dbg.resumed[1].breakpoints : dbg.resumed[1].mem[addr] = INT3

\* C39 as claimed: the orig_byte stored for an address of the breakpoint map
\* is the byte the program has at that address.
C39_OrigByteIsTheProgramByte ==
  dbg.inferior # None =>
    \A addr \in DOMAIN dbg.inferior[1].breakpoints :
      dbg.inferior[1].breakpoints[addr] = Program[addr]

\* C40 as claimed: at most one inferior is alive at a time, and when
\* Debugger::run has returned none is.
C40_NoInferiorLeftBehind ==
  /\ Cardinality(Alive) <= 1
  /\ dbg.pc = "returned" => Alive = {}

=============================================================================
